---- MODULE Spec2Model ----
(***************************************************************************)
(* Model of the musiquiz game server: the GameManager room/player state    *)
(* machine (server/src/GameManager.ts) and the socket.io event handlers    *)
(* that drive it (setupSocketServer).  Every handler runs to completion    *)
(* on the single-threaded event loop, so each handler and each setTimeout  *)
(* callback is one atomic action.                                          *)
(***************************************************************************)
EXTENDS Integers, Sequences, FiniteSets, TLC

\* ---------------------------------------------------------------- bounds
NumSessions == 3        \* socket ids 1..NumSessions (a socket id is never reused)
NumRooms    == 2        \* room codes 1..NumRooms
NumSongs    == 2        \* size of the SONGS catalog used by the model
NumRounds   == 2        \* totalRounds target of a room (10 in the source)
MaxPending  == 2        \* cap on pending setTimeout callbacks per room code
MaxNow      == 1        \* cap on the Date.now() clock
MaxScore    == 1        \* cap on a score reached through update_score / host_give_score
NumNames    == 2        \* display names 1..NumNames a join_game payload can carry
NumAvatars  == 2        \* avatars 1..NumAvatars generateAvatar() can return

\* ------------------------------------------------------ program constants
maxAttempts  == 100     \* retry budget of the rejection-sampling loop
MinPlayers   == 2       \* startGame needs at least this many players
MaxGiveScore == 10      \* upper limit of giveScore's scoreAmount

Sids   == 1..NumSessions
Codes  == 1..NumRooms
SONGS  == 1..NumSongs
Names  == 1..NumNames
Avatars == 1..NumAvatars
Points == {-1, 1}               \* points sent with update_score
Amounts == {-1, 1, 11}           \* scoreAmount sent with host_give_score

NoSid  == 0                     \* null buzzedPlayerId / no session
NoCode == 0                     \* no room
NoTime == -1                    \* buzzTime undefined

GameState == {"LOBBY", "ROUND_LOADING", "ROUND_PLAYING",
              "ROUND_LOCKED", "ROUND_RESULT", "GAME_OVER"}

VARIABLES
    rooms,      \* GameManager.rooms: room code -> GameRoom
    players,    \* GameManager.players: socket id -> GamePlayer (registry)
    sockets,    \* socket ids whose connection is open
    pending,    \* room code -> number of scheduled startRoundPlaying callbacks
    now,        \* Date.now()
    uncaught    \* <<>> while the process runs; <<[error, roomId]>> once an
                \* exception escaped a timer callback and ended the process

vars == <<rooms, players, sockets, pending, now, uncaught>>

\* ------------------------------------------------------------- helpers
With(f, k, v) == [x \in DOMAIN f \cup {k} |-> IF x = k THEN v ELSE f[x]]
Without(f, k) == [x \in DOMAIN f \ {k} |-> f[x]]
Range(seq) == {seq[i] : i \in 1..Len(seq)}
Max(a, b) == IF a >= b THEN a ELSE b

\* room.players is a Map keyed by socket id that iterates in insertion
\* order: a sequence of GamePlayer records with distinct ids.
MemberIds(room) == {room.players[i].id : i \in 1..Len(room.players)}
IndexOf(room, sid) == CHOOSE i \in 1..Len(room.players) : room.players[i].id = sid

\* The registry and the room's map hold the same GamePlayer object; the
\* registry entry carries the object's key and the room that holds it, and
\* the name, the avatar and the mutable score are read through that room.
Entry(p) == [id |-> p.id, roomId |-> p.roomId]

\* ------------------------------------------------- GameManager operations
\* Each operation maps the registries to the registries after the call and
\* the message of the Error it throws ("none" when it returns normally).

\* avatar is the value generateAvatar() returns when it is called.
createRoom(rs, ps, hostId, hostName, newRoomId, avatar) ==
    IF newRoomId \in DOMAIN rs
    THEN [rooms |-> rs, players |-> ps, err |-> "Room already exists"]
    ELSE LET host == [id |-> hostId, socketId |-> hostId, name |-> hostName,
                      score |-> 0, avatar |-> avatar, roomId |-> newRoomId]
             room == [id |-> newRoomId, hostId |-> hostId, state |-> "LOBBY",
                      players |-> <<host>>, currentRound |-> <<>>,
                      roundNumber |-> 0, totalRounds |-> NumRounds,
                      songsPlayed |-> <<>>]
         IN [rooms |-> With(rs, newRoomId, room),
             players |-> With(ps, hostId, Entry(host)),
             err |-> "none"]

\* addPlayer that lets nobody in once the game has started.
addPlayerLobbyOnly(rs, ps, socketId, name, roomId, avatar) ==
    IF roomId \notin DOMAIN rs
    THEN [rooms |-> rs, players |-> ps, err |-> "Room not found", player |-> <<>>]
    ELSE IF socketId \in MemberIds(rs[roomId])
    THEN [rooms |-> rs, players |-> ps, err |-> "none",
          player |-> rs[roomId].players[IndexOf(rs[roomId], socketId)]]
    ELSE IF rs[roomId].state # "LOBBY"
    THEN [rooms |-> rs, players |-> ps, err |-> "Game already started", player |-> <<>>]
    ELSE LET player == [id |-> socketId, socketId |-> socketId, name |-> name,
                        score |-> 0, avatar |-> avatar, roomId |-> roomId]
         IN [rooms |-> [rs EXCEPT ![roomId].players = Append(@, player)],
             players |-> With(ps, socketId, Entry(player)),
             err |-> "none", player |-> player]

\* addPlayer without the already-a-member check: the Map entry of a member
\* who joins again is replaced by a fresh record.
addPlayerAgain(rs, ps, socketId, name, roomId, avatar) ==
    IF roomId \notin DOMAIN rs
    THEN [rooms |-> rs, players |-> ps, err |-> "Room not found", player |-> <<>>]
    ELSE LET player == [id |-> socketId, socketId |-> socketId, name |-> name,
                        score |-> 0, avatar |-> avatar, roomId |-> roomId]
         IN [rooms |-> IF socketId \in MemberIds(rs[roomId])
                       THEN [rs EXCEPT ![roomId].players[IndexOf(rs[roomId], socketId)] = player]
                       ELSE [rs EXCEPT ![roomId].players = Append(@, player)],
             players |-> With(ps, socketId, Entry(player)),
             err |-> "none", player |-> player]

\* player is the returned GamePlayer (<<>> when the call throws).
addPlayer(rs, ps, socketId, name, roomId, avatar) ==
    IF roomId \notin DOMAIN rs
    THEN [rooms |-> rs, players |-> ps, err |-> "Room not found", player |-> <<>>]
    ELSE IF socketId \in MemberIds(rs[roomId])
    THEN [rooms |-> rs, players |-> ps, err |-> "none",
          player |-> rs[roomId].players[IndexOf(rs[roomId], socketId)]]
    ELSE LET player == [id |-> socketId, socketId |-> socketId, name |-> name,
                        score |-> 0, avatar |-> avatar, roomId |-> roomId]
         IN [rooms |-> [rs EXCEPT ![roomId].players = Append(@, player)],
             players |-> With(ps, socketId, Entry(player)),
             err |-> "none", player |-> player]

\* removePlayer that deletes an empty room but never transfers the host.
removePlayerNoTransfer(rs, ps, socketId) ==
    IF socketId \notin DOMAIN ps
    THEN [rooms |-> rs, players |-> ps, room |-> NoCode, player |-> FALSE]
    ELSE LET player == ps[socketId] IN
         IF player.roomId \notin DOMAIN rs
         THEN [rooms |-> rs, players |-> Without(ps, socketId),
               room |-> NoCode, player |-> TRUE]
         ELSE LET room == rs[player.roomId]
                  remainingPlayers == SelectSeq(room.players, LAMBDA p : p.id # socketId)
              IN IF Len(remainingPlayers) = 0
                 THEN [rooms |-> Without(rs, room.id),
                       players |-> Without(ps, socketId),
                       room |-> NoCode, player |-> TRUE]
                 ELSE [rooms |-> [rs EXCEPT ![room.id].players = remainingPlayers],
                       players |-> Without(ps, socketId),
                       room |-> room.id, player |-> TRUE]

\* removePlayer that forgets to delete a room left without members.
removePlayerKeepsEmptyRoom(rs, ps, socketId) ==
    IF socketId \notin DOMAIN ps
    THEN [rooms |-> rs, players |-> ps, room |-> NoCode, player |-> FALSE]
    ELSE LET player == ps[socketId] IN
         IF player.roomId \notin DOMAIN rs
         THEN [rooms |-> rs, players |-> Without(ps, socketId),
               room |-> NoCode, player |-> TRUE]
         ELSE LET room == rs[player.roomId]
                  remainingPlayers == SelectSeq(room.players, LAMBDA p : p.id # socketId)
              IN IF player.id = room.hostId /\ Len(remainingPlayers) > 0
                 THEN [rooms |-> [rs EXCEPT ![room.id].players = remainingPlayers,
                                            ![room.id].hostId = remainingPlayers[1].socketId],
                       players |-> Without(ps, socketId),
                       room |-> room.id, player |-> TRUE]
                 ELSE [rooms |-> [rs EXCEPT ![room.id].players = remainingPlayers],
                       players |-> Without(ps, socketId),
                       room |-> room.id, player |-> TRUE]

\* removePlayer that hands the host role to the latest-joined remaining member.
removePlayerNewestHost(rs, ps, socketId) ==
    IF socketId \notin DOMAIN ps
    THEN [rooms |-> rs, players |-> ps, room |-> NoCode, player |-> FALSE]
    ELSE LET player == ps[socketId] IN
         IF player.roomId \notin DOMAIN rs
         THEN [rooms |-> rs, players |-> Without(ps, socketId),
               room |-> NoCode, player |-> TRUE]
         ELSE LET room == rs[player.roomId]
                  remainingPlayers == SelectSeq(room.players, LAMBDA p : p.id # socketId)
              IN IF player.id = room.hostId
                 THEN IF Len(remainingPlayers) > 0
                      THEN [rooms |-> [rs EXCEPT ![room.id].players = remainingPlayers,
                                                 ![room.id].hostId = remainingPlayers[Len(remainingPlayers)].socketId],
                            players |-> Without(ps, socketId),
                            room |-> room.id, player |-> TRUE]
                      ELSE [rooms |-> Without(rs, room.id),
                            players |-> Without(ps, socketId),
                            room |-> NoCode, player |-> TRUE]
                 ELSE [rooms |-> [rs EXCEPT ![room.id].players = remainingPlayers],
                       players |-> Without(ps, socketId),
                       room |-> room.id, player |-> TRUE]

\* removePlayer that deletes the emptied room but still returns it.
removePlayerReportsRoom(rs, ps, socketId) ==
    IF socketId \notin DOMAIN ps
    THEN [rooms |-> rs, players |-> ps, room |-> NoCode, player |-> FALSE]
    ELSE LET player == ps[socketId] IN
         IF player.roomId \notin DOMAIN rs
         THEN [rooms |-> rs, players |-> Without(ps, socketId),
               room |-> NoCode, player |-> TRUE]
         ELSE LET room == rs[player.roomId]
                  remainingPlayers == SelectSeq(room.players, LAMBDA p : p.id # socketId)
              IN IF player.id = room.hostId
                 THEN IF Len(remainingPlayers) > 0
                      THEN [rooms |-> [rs EXCEPT ![room.id].players = remainingPlayers,
                                                 ![room.id].hostId = remainingPlayers[1].socketId],
                            players |-> Without(ps, socketId),
                            room |-> room.id, player |-> TRUE]
                      ELSE [rooms |-> Without(rs, room.id),
                            players |-> Without(ps, socketId),
                            room |-> room.id, player |-> TRUE]
                 ELSE [rooms |-> [rs EXCEPT ![room.id].players = remainingPlayers],
                       players |-> Without(ps, socketId),
                       room |-> room.id, player |-> TRUE]

\* room: the code of the returned room (NoCode for null); player: whether a
\* player is returned.
\* removePlayer that deletes the room whenever its host leaves.
removePlayerHostClosesRoom(rs, ps, socketId) ==
    IF socketId \notin DOMAIN ps
    THEN [rooms |-> rs, players |-> ps, room |-> NoCode, player |-> FALSE]
    ELSE LET player == ps[socketId] IN
         IF player.roomId \notin DOMAIN rs
         THEN [rooms |-> rs, players |-> Without(ps, socketId),
               room |-> NoCode, player |-> TRUE]
         ELSE LET room == rs[player.roomId]
                  remainingPlayers == SelectSeq(room.players, LAMBDA p : p.id # socketId)
              IN IF player.id = room.hostId
                 THEN [rooms |-> Without(rs, room.id),
                       players |-> Without(ps, socketId),
                       room |-> NoCode, player |-> TRUE]
                 ELSE [rooms |-> [rs EXCEPT ![room.id].players = remainingPlayers],
                       players |-> Without(ps, socketId),
                       room |-> room.id, player |-> TRUE]

removePlayer(rs, ps, socketId) ==
    IF socketId \notin DOMAIN ps
    THEN [rooms |-> rs, players |-> ps, room |-> NoCode, player |-> FALSE]
    ELSE LET player == ps[socketId] IN
         IF player.roomId \notin DOMAIN rs
         THEN [rooms |-> rs, players |-> Without(ps, socketId),
               room |-> NoCode, player |-> TRUE]
         ELSE LET room == rs[player.roomId]
                  remainingPlayers == SelectSeq(room.players, LAMBDA p : p.id # socketId)
              IN IF player.id = room.hostId
                 THEN IF Len(remainingPlayers) > 0
                      THEN [rooms |-> [rs EXCEPT ![room.id].players = remainingPlayers,
                                                 ![room.id].hostId = remainingPlayers[1].socketId],
                            players |-> Without(ps, socketId),
                            room |-> room.id, player |-> TRUE]
                      ELSE [rooms |-> Without(rs, room.id),
                            players |-> Without(ps, socketId),
                            room |-> NoCode, player |-> TRUE]
                 ELSE [rooms |-> [rs EXCEPT ![room.id].players = remainingPlayers],
                       players |-> Without(ps, socketId),
                       room |-> room.id, player |-> TRUE]

\* startGame without the 'Game already started' check.
startGameAnyState(rs, roomId) ==
    IF roomId \notin DOMAIN rs THEN [rooms |-> rs, err |-> "Room not found"]
    ELSE IF Len(rs[roomId].players) < MinPlayers
    THEN [rooms |-> rs, err |-> "Need at least 2 players to start"]
    ELSE [rooms |-> [rs EXCEPT ![roomId].state = "ROUND_LOADING",
                               ![roomId].roundNumber = 0,
                               ![roomId].songsPlayed = <<>>],
          err |-> "none"]

\* startGame without the minimum-players check.
startGameAlone(rs, roomId) ==
    IF roomId \notin DOMAIN rs THEN [rooms |-> rs, err |-> "Room not found"]
    ELSE IF rs[roomId].state # "LOBBY" THEN [rooms |-> rs, err |-> "Game already started"]
    ELSE [rooms |-> [rs EXCEPT ![roomId].state = "ROUND_LOADING",
                               ![roomId].roundNumber = 0,
                               ![roomId].songsPlayed = <<>>],
          err |-> "none"]

\* startGame that also puts every score back to zero.
startGameClearsScores(rs, roomId) ==
    IF roomId \notin DOMAIN rs THEN [rooms |-> rs, err |-> "Room not found"]
    ELSE IF rs[roomId].state # "LOBBY" THEN [rooms |-> rs, err |-> "Game already started"]
    ELSE IF Len(rs[roomId].players) < MinPlayers
    THEN [rooms |-> rs, err |-> "Need at least 2 players to start"]
    ELSE [rooms |-> [rs EXCEPT ![roomId].state = "ROUND_LOADING",
                               ![roomId].roundNumber = 0,
                               ![roomId].songsPlayed = <<>>,
                               ![roomId].players =
                                   [i \in DOMAIN @ |-> [@[i] EXCEPT !.score = 0]]],
          err |-> "none"]

startGame(rs, roomId) ==
    IF roomId \notin DOMAIN rs THEN [rooms |-> rs, err |-> "Room not found"]
    ELSE IF rs[roomId].state # "LOBBY" THEN [rooms |-> rs, err |-> "Game already started"]
    ELSE IF Len(rs[roomId].players) < MinPlayers
    THEN [rooms |-> rs, err |-> "Need at least 2 players to start"]
    ELSE [rooms |-> [rs EXCEPT ![roomId].state = "ROUND_LOADING",
                               ![roomId].roundNumber = 0,
                               ![roomId].songsPlayed = <<>>],
          err |-> "none"]

\* A draw loop that takes the first drawn song whether it was played or not.
SongPicksRepeats(catalog, songsPlayed) ==
    {[song |-> s, reset |-> FALSE] : s \in catalog}

\* The outcomes of the do-while loop around getRandomSong(): the loop leaves
\* with the first drawn song that is not in songsPlayed, or, when the first
\* maxAttempts - 1 draws were all in songsPlayed, it empties songsPlayed at
\* attempt maxAttempts and takes one more draw, whatever it is.  The draws
\* are from the array catalog.
SongPicksOf(catalog, songsPlayed) ==
    {[song |-> s, reset |-> FALSE] :
        s \in {x \in catalog : maxAttempts > 1 /\ x \notin Range(songsPlayed)}}
    \cup {[song |-> s, reset |-> TRUE] :
            s \in {x \in catalog : maxAttempts = 1 \/ catalog \cap Range(songsPlayed) # {}}}

\* The outcomes of the loop with the catalog of the build.
SongPicks(songsPlayed) == SongPicksOf(SONGS, songsPlayed)

\* nextRound that computes isKaraoke before incrementing roundNumber.
nextRoundKaraokeEarly(rs, roomId, t) ==
    IF roomId \notin DOMAIN rs THEN {[rooms |-> rs, err |-> "Room not found"]}
    ELSE LET sg == IF rs[roomId].state = "LOBBY" THEN startGame(rs, roomId)
                   ELSE [rooms |-> rs, err |-> "none"]
         IN IF sg.err # "none" THEN {sg}
            ELSE LET room == sg.rooms[roomId] IN
                 IF room.roundNumber >= room.totalRounds
                 THEN {[rooms |-> [sg.rooms EXCEPT ![roomId].state = "GAME_OVER",
                                                  ![roomId].currentRound = <<>>],
                        err |-> "none"]}
                 ELSE IF SONGS = {}
                 THEN {[rooms |-> sg.rooms, err |-> "No songs available"]}
                 ELSE {[rooms |-> [sg.rooms EXCEPT
                            ![roomId].roundNumber = @ + 1,
                            ![roomId].songsPlayed =
                                Append(IF pick.reset THEN <<>> ELSE @, pick.song),
                            ![roomId].state = "ROUND_LOADING",
                            ![roomId].currentRound =
                                <<[song |-> pick.song, buzzedPlayerId |-> NoSid,
                                   startTime |-> t, buzzTime |-> NoTime,
                                   isKaraoke |-> (room.roundNumber = room.totalRounds)]>>],
                        err |-> "none"] : pick \in SongPicks(room.songsPlayed)}

\* nextRound that ends the game one round late (> in place of >=).
nextRoundOneMore(rs, roomId, t) ==
    IF roomId \notin DOMAIN rs THEN {[rooms |-> rs, err |-> "Room not found"]}
    ELSE LET sg == IF rs[roomId].state = "LOBBY" THEN startGame(rs, roomId)
                   ELSE [rooms |-> rs, err |-> "none"]
         IN IF sg.err # "none" THEN {sg}
            ELSE LET room == sg.rooms[roomId] IN
                 IF room.roundNumber > room.totalRounds
                 THEN {[rooms |-> [sg.rooms EXCEPT ![roomId].state = "GAME_OVER",
                                                  ![roomId].currentRound = <<>>],
                        err |-> "none"]}
                 ELSE IF SONGS = {}
                 THEN {[rooms |-> sg.rooms, err |-> "No songs available"]}
                 ELSE {[rooms |-> [sg.rooms EXCEPT
                            ![roomId].roundNumber = @ + 1,
                            ![roomId].songsPlayed =
                                Append(IF pick.reset THEN <<>> ELSE @, pick.song),
                            ![roomId].state = "ROUND_LOADING",
                            ![roomId].currentRound =
                                <<[song |-> pick.song, buzzedPlayerId |-> NoSid,
                                   startTime |-> t, buzzTime |-> NoTime,
                                   isKaraoke |-> (room.roundNumber + 1 = room.totalRounds)]>>],
                        err |-> "none"] : pick \in SongPicks(room.songsPlayed)}

\* nextRound that does not perform startGame for a room in LOBBY.
nextRoundNoStart(rs, roomId, t) ==
    IF roomId \notin DOMAIN rs THEN {[rooms |-> rs, err |-> "Room not found"]}
    ELSE LET sg == [rooms |-> rs, err |-> "none"]
         IN IF sg.err # "none" THEN {sg}
            ELSE LET room == sg.rooms[roomId] IN
                 IF room.roundNumber >= room.totalRounds
                 THEN {[rooms |-> [sg.rooms EXCEPT ![roomId].state = "GAME_OVER",
                                                  ![roomId].currentRound = <<>>],
                        err |-> "none"]}
                 ELSE IF SONGS = {}
                 THEN {[rooms |-> sg.rooms, err |-> "No songs available"]}
                 ELSE {[rooms |-> [sg.rooms EXCEPT
                            ![roomId].roundNumber = @ + 1,
                            ![roomId].songsPlayed =
                                Append(IF pick.reset THEN <<>> ELSE @, pick.song),
                            ![roomId].state = "ROUND_LOADING",
                            ![roomId].currentRound =
                                <<[song |-> pick.song, buzzedPlayerId |-> NoSid,
                                   startTime |-> t, buzzTime |-> NoTime,
                                   isKaraoke |-> (room.roundNumber + 1 = room.totalRounds)]>>],
                        err |-> "none"] : pick \in SongPicks(room.songsPlayed)}

\* nextRound that installs the song without recording it in songsPlayed.
nextRoundNoPush(rs, roomId, t) ==
    IF roomId \notin DOMAIN rs THEN {[rooms |-> rs, err |-> "Room not found"]}
    ELSE LET sg == IF rs[roomId].state = "LOBBY" THEN startGame(rs, roomId)
                   ELSE [rooms |-> rs, err |-> "none"]
         IN IF sg.err # "none" THEN {sg}
            ELSE LET room == sg.rooms[roomId] IN
                 IF room.roundNumber >= room.totalRounds
                 THEN {[rooms |-> [sg.rooms EXCEPT ![roomId].state = "GAME_OVER",
                                                  ![roomId].currentRound = <<>>],
                        err |-> "none"]}
                 ELSE IF SONGS = {}
                 THEN {[rooms |-> sg.rooms, err |-> "No songs available"]}
                 ELSE {[rooms |-> [sg.rooms EXCEPT
                            ![roomId].roundNumber = @ + 1,
                            ![roomId].songsPlayed = IF pick.reset THEN <<>> ELSE @,
                            ![roomId].state = "ROUND_LOADING",
                            ![roomId].currentRound =
                                <<[song |-> pick.song, buzzedPlayerId |-> NoSid,
                                   startTime |-> t, buzzTime |-> NoTime,
                                   isKaraoke |-> (room.roundNumber + 1 = room.totalRounds)]>>],
                        err |-> "none"] : pick \in SongPicks(room.songsPlayed)}

\* The set of results nextRound can produce (one per outcome of the draws)
\* when getRandomSong() draws from the array catalog; from an empty array it
\* returns undefined, the loop ends on its first pass and nextRound throws
\* after what it did before the loop.
nextRoundOf(catalog, rs, roomId, t) ==
    IF roomId \notin DOMAIN rs THEN {[rooms |-> rs, err |-> "Room not found"]}
    ELSE LET sg == IF rs[roomId].state = "LOBBY" THEN startGame(rs, roomId)
                   ELSE [rooms |-> rs, err |-> "none"]
         IN IF sg.err # "none" THEN {sg}
            ELSE LET room == sg.rooms[roomId] IN
                 IF room.roundNumber >= room.totalRounds
                 THEN {[rooms |-> [sg.rooms EXCEPT ![roomId].state = "GAME_OVER",
                                                  ![roomId].currentRound = <<>>],
                        err |-> "none"]}
                 ELSE IF catalog = {}
                 THEN {[rooms |-> sg.rooms, err |-> "No songs available"]}
                 ELSE {[rooms |-> [sg.rooms EXCEPT
                            ![roomId].roundNumber = @ + 1,
                            ![roomId].songsPlayed =
                                Append(IF pick.reset THEN <<>> ELSE @, pick.song),
                            ![roomId].state = "ROUND_LOADING",
                            ![roomId].currentRound =
                                <<[song |-> pick.song, buzzedPlayerId |-> NoSid,
                                   startTime |-> t, buzzTime |-> NoTime,
                                   isKaraoke |-> (room.roundNumber + 1 = room.totalRounds)]>>],
                        err |-> "none"] : pick \in SongPicksOf(catalog, room.songsPlayed)}

\* nextRound with the catalog of the build.
nextRound(rs, roomId, t) == nextRoundOf(SONGS, rs, roomId, t)

\* startRoundPlaying that checks only that a round is present.
startRoundPlayingAnyState(rs, roomId, t) ==
    IF roomId \notin DOMAIN rs THEN [rooms |-> rs, err |-> "Room not found"]
    ELSE IF rs[roomId].currentRound = <<>>
    THEN [rooms |-> rs, err |-> "Invalid state transition"]
    ELSE [rooms |-> [rs EXCEPT ![roomId].state = "ROUND_PLAYING",
                               ![roomId].currentRound[1].startTime = t],
          err |-> "none"]

\* startRoundPlaying that also restarts a round that is already playing.
startRoundPlayingRestarts(rs, roomId, t) ==
    IF roomId \notin DOMAIN rs THEN [rooms |-> rs, err |-> "Room not found"]
    ELSE IF rs[roomId].state \notin {"ROUND_LOADING", "ROUND_PLAYING"}
            \/ rs[roomId].currentRound = <<>>
    THEN [rooms |-> rs, err |-> "Invalid state transition"]
    ELSE [rooms |-> [rs EXCEPT ![roomId].state = "ROUND_PLAYING",
                               ![roomId].currentRound[1].startTime = t],
          err |-> "none"]

startRoundPlaying(rs, roomId, t) ==
    IF roomId \notin DOMAIN rs THEN [rooms |-> rs, err |-> "Room not found"]
    ELSE IF rs[roomId].state # "ROUND_LOADING" \/ rs[roomId].currentRound = <<>>
    THEN [rooms |-> rs, err |-> "Invalid state transition"]
    ELSE [rooms |-> [rs EXCEPT ![roomId].state = "ROUND_PLAYING",
                               ![roomId].currentRound[1].startTime = t],
          err |-> "none"]

\* handleBuzz that records the buzz but forgets to lock the round.
handleBuzzNoLock(rs, roomId, playerId, t) ==
    IF roomId \notin DOMAIN rs THEN [rooms |-> rs, err |-> "Room not found", ret |-> FALSE]
    ELSE IF rs[roomId].state # "ROUND_PLAYING" THEN [rooms |-> rs, err |-> "none", ret |-> FALSE]
    ELSE IF rs[roomId].currentRound = <<>> THEN [rooms |-> rs, err |-> "none", ret |-> FALSE]
    ELSE IF rs[roomId].currentRound[1].buzzedPlayerId # NoSid
    THEN [rooms |-> rs, err |-> "none", ret |-> FALSE]
    ELSE [rooms |-> [rs EXCEPT ![roomId].currentRound[1].buzzedPlayerId = playerId,
                               ![roomId].currentRound[1].buzzTime = t],
          err |-> "none", ret |-> TRUE]

\* handleBuzz that accepts a buzz whenever a round is being played or is
\* locked: the latest buzz overwrites the winner.
handleBuzzLastWins(rs, roomId, playerId, t) ==
    IF roomId \notin DOMAIN rs THEN [rooms |-> rs, err |-> "Room not found", ret |-> FALSE]
    ELSE IF rs[roomId].state \notin {"ROUND_PLAYING", "ROUND_LOCKED"}
    THEN [rooms |-> rs, err |-> "none", ret |-> FALSE]
    ELSE IF rs[roomId].currentRound = <<>> THEN [rooms |-> rs, err |-> "none", ret |-> FALSE]
    ELSE [rooms |-> [rs EXCEPT ![roomId].currentRound[1].buzzedPlayerId = playerId,
                               ![roomId].currentRound[1].buzzTime = t,
                               ![roomId].state = "ROUND_LOCKED"],
          err |-> "none", ret |-> TRUE]

\* handleBuzz that throws when the room is not in ROUND_PLAYING.
handleBuzzThrowsLate(rs, roomId, playerId, t) ==
    IF roomId \notin DOMAIN rs THEN [rooms |-> rs, err |-> "Room not found", ret |-> FALSE]
    ELSE IF rs[roomId].state # "ROUND_PLAYING"
    THEN [rooms |-> rs, err |-> "Invalid state transition", ret |-> FALSE]
    ELSE IF rs[roomId].currentRound = <<>> THEN [rooms |-> rs, err |-> "none", ret |-> FALSE]
    ELSE IF rs[roomId].currentRound[1].buzzedPlayerId # NoSid
    THEN [rooms |-> rs, err |-> "none", ret |-> FALSE]
    ELSE [rooms |-> [rs EXCEPT ![roomId].currentRound[1].buzzedPlayerId = playerId,
                               ![roomId].currentRound[1].buzzTime = t,
                               ![roomId].state = "ROUND_LOCKED"],
          err |-> "none", ret |-> TRUE]

\* handleBuzz that locks the round without recording who buzzed.
handleBuzzNoWinner(rs, roomId, playerId, t) ==
    IF roomId \notin DOMAIN rs THEN [rooms |-> rs, err |-> "Room not found", ret |-> FALSE]
    ELSE IF rs[roomId].state # "ROUND_PLAYING" THEN [rooms |-> rs, err |-> "none", ret |-> FALSE]
    ELSE IF rs[roomId].currentRound = <<>> THEN [rooms |-> rs, err |-> "none", ret |-> FALSE]
    ELSE IF rs[roomId].currentRound[1].buzzedPlayerId # NoSid
    THEN [rooms |-> rs, err |-> "none", ret |-> FALSE]
    ELSE [rooms |-> [rs EXCEPT ![roomId].currentRound[1].buzzTime = t,
                               ![roomId].state = "ROUND_LOCKED"],
          err |-> "none", ret |-> TRUE]

handleBuzz(rs, roomId, playerId, t) ==
    IF roomId \notin DOMAIN rs THEN [rooms |-> rs, err |-> "Room not found", ret |-> FALSE]
    ELSE IF rs[roomId].state # "ROUND_PLAYING" THEN [rooms |-> rs, err |-> "none", ret |-> FALSE]
    ELSE IF rs[roomId].currentRound = <<>> THEN [rooms |-> rs, err |-> "none", ret |-> FALSE]
    ELSE IF rs[roomId].currentRound[1].buzzedPlayerId # NoSid
    THEN [rooms |-> rs, err |-> "none", ret |-> FALSE]
    ELSE [rooms |-> [rs EXCEPT ![roomId].currentRound[1].buzzedPlayerId = playerId,
                               ![roomId].currentRound[1].buzzTime = t,
                               ![roomId].state = "ROUND_LOCKED"],
          err |-> "none", ret |-> TRUE]

\* showRoundResult that drops the transient round when it shows the result.
showRoundResultDropsRound(rs, roomId) ==
    IF roomId \notin DOMAIN rs THEN [rooms |-> rs, err |-> "Room not found"]
    ELSE IF rs[roomId].state # "ROUND_LOCKED"
    THEN [rooms |-> rs, err |-> "Invalid state transition"]
    ELSE [rooms |-> [rs EXCEPT ![roomId].state = "ROUND_RESULT",
                               ![roomId].currentRound = <<>>],
          err |-> "none"]

showRoundResult(rs, roomId) ==
    IF roomId \notin DOMAIN rs THEN [rooms |-> rs, err |-> "Room not found"]
    ELSE IF rs[roomId].state # "ROUND_LOCKED"
    THEN [rooms |-> rs, err |-> "Invalid state transition"]
    ELSE [rooms |-> [rs EXCEPT ![roomId].state = "ROUND_RESULT"], err |-> "none"]

\* updateScore that changes the player's score in every room that has the
\* player as a member.
updateScoreEveryRoom(rs, roomId, playerId, points) ==
    IF roomId \notin DOMAIN rs THEN [rooms |-> rs, err |-> "Room not found"]
    ELSE IF playerId \notin MemberIds(rs[roomId])
    THEN [rooms |-> rs, err |-> "Player not found in room"]
    ELSE [rooms |-> [c \in DOMAIN rs |->
                       IF playerId \in MemberIds(rs[c])
                       THEN [rs[c] EXCEPT !.players[IndexOf(rs[c], playerId)].score =
                                              Max(0, @ + points)]
                       ELSE rs[c]],
          err |-> "none"]

\* updateScore that adds the points without the floor at zero.
updateScoreNoClamp(rs, roomId, playerId, points) ==
    IF roomId \notin DOMAIN rs THEN [rooms |-> rs, err |-> "Room not found"]
    ELSE IF playerId \notin MemberIds(rs[roomId])
    THEN [rooms |-> rs, err |-> "Player not found in room"]
    ELSE [rooms |-> [rs EXCEPT ![roomId].players[IndexOf(rs[roomId], playerId)].score =
                                   @ + points],
          err |-> "none"]

updateScore(rs, roomId, playerId, points) ==
    IF roomId \notin DOMAIN rs THEN [rooms |-> rs, err |-> "Room not found"]
    ELSE IF playerId \notin MemberIds(rs[roomId])
    THEN [rooms |-> rs, err |-> "Player not found in room"]
    ELSE [rooms |-> [rs EXCEPT ![roomId].players[IndexOf(rs[roomId], playerId)].score =
                                   Max(0, @ + points)],
          err |-> "none"]

\* giveScore that sets the score to the amount (replaces it).
giveScoreReplaces(rs, roomId, playerId, scoreAmount) ==
    IF scoreAmount < 0 \/ scoreAmount > MaxGiveScore
    THEN [rooms |-> rs, err |-> "Score amount must be between 0 and 10"]
    ELSE IF roomId \notin DOMAIN rs THEN [rooms |-> rs, err |-> "Room not found"]
    ELSE IF playerId \notin MemberIds(rs[roomId])
    THEN [rooms |-> rs, err |-> "Player not found in room"]
    ELSE [rooms |-> [rs EXCEPT ![roomId].players[IndexOf(rs[roomId], playerId)].score =
                                   scoreAmount],
          err |-> "none"]

giveScore(rs, roomId, playerId, scoreAmount) ==
    IF scoreAmount < 0 \/ scoreAmount > MaxGiveScore
    THEN [rooms |-> rs, err |-> "Score amount must be between 0 and 10"]
    ELSE updateScore(rs, roomId, playerId, scoreAmount)

\* isHost that accepts every member of the room.
isHostAnyMember(rs, roomId, playerId) ==
    IF roomId \notin DOMAIN rs THEN FALSE ELSE playerId \in MemberIds(rs[roomId])

isHost(rs, roomId, playerId) ==
    IF roomId \notin DOMAIN rs THEN FALSE ELSE rs[roomId].hostId = playerId

\* resetRound that also abandons a round that is being played.
resetRoundWhilePlaying(rs, roomId, t) ==
    IF roomId \notin DOMAIN rs THEN {[rooms |-> rs, err |-> "Room not found"]}
    ELSE IF rs[roomId].state \in {"ROUND_PLAYING", "ROUND_LOCKED", "ROUND_RESULT"}
    THEN nextRound([rs EXCEPT ![roomId].currentRound = <<>>], roomId, t)
    ELSE {[rooms |-> rs, err |-> "none"]}

\* The set of results resetRound can produce.
\* resetRound that counts the abandoned round once more before advancing.
resetRoundSkips(rs, roomId, t) ==
    IF roomId \notin DOMAIN rs THEN {[rooms |-> rs, err |-> "Room not found"]}
    ELSE IF rs[roomId].state \in {"ROUND_LOCKED", "ROUND_RESULT"}
    THEN nextRound([rs EXCEPT ![roomId].currentRound = <<>>,
                              ![roomId].roundNumber = @ + 1], roomId, t)
    ELSE {[rooms |-> rs, err |-> "none"]}

resetRound(rs, roomId, t) ==
    IF roomId \notin DOMAIN rs THEN {[rooms |-> rs, err |-> "Room not found"]}
    ELSE IF rs[roomId].state \in {"ROUND_LOCKED", "ROUND_RESULT"}
    THEN nextRound([rs EXCEPT ![roomId].currentRound = <<>>], roomId, t)
    ELSE {[rooms |-> rs, err |-> "none"]}

\* --------------------------------------------------- dispatcher (handlers)
\* The outcome of one event handler: the registries after it ran, the
\* acknowledgment passed to the callback (success, error), the room
\* emitGameState broadcast to (NoCode for none) and whether it scheduled a
\* startRoundPlaying callback.
Out(rs, ps, success, error, emit, timer) ==
    [rooms |-> rs, players |-> ps, success |-> success, error |-> error,
     emit |-> emit, timer |-> timer]

Rejected(rs, ps, error) == Out(rs, ps, FALSE, error, NoCode, FALSE)

\* emitGameState returns without emitting when the room does not exist.
emitGameState(rs, roomId) == IF roomId \in DOMAIN rs THEN roomId ELSE NoCode

\* The three checks that open every host-only handler.
HostCheck(rs, ps, sid, roomId, denied) ==
    IF sid \notin DOMAIN ps THEN "Player not found"
    ELSE IF roomId \notin DOMAIN rs THEN "Room not found"
    ELSE IF ~isHost(rs, roomId, sid) THEN denied
    ELSE "none"

\* socket.on('join_game'): rid = NoCode stands for an absent payload.roomId,
\* gen is the code generateRoomId() returns and avatar the value
\* generateAvatar() returns when they are called.
join_game(rs, ps, sid, role, name, rid, gen, avatar) ==
    LET noId == [rooms |-> rs, players |-> ps, err |-> "Room ID is required for players"]
        res == IF role = "host"
               THEN IF rid # NoCode
                    THEN IF rid \in DOMAIN rs
                         THEN addPlayer(rs, ps, sid, name, rid, avatar)
                         ELSE createRoom(rs, ps, sid, name, rid, avatar)
                    ELSE createRoom(rs, ps, sid, name, gen, avatar)
               ELSE IF rid = NoCode THEN noId
                    ELSE addPlayer(rs, ps, sid, name, rid, avatar)
        roomId == IF role = "host" /\ rid = NoCode THEN gen ELSE rid
    IN IF res.err = "none"
       THEN Out(res.rooms, res.players, TRUE, "none", emitGameState(res.rooms, roomId), FALSE)
       ELSE Rejected(res.rooms, res.players, res.err)

\* socket.on('start_game'): the set of outcomes, when getRandomSong() draws
\* from the array catalog.
start_gameOf(catalog, rs, ps, sid, rid, t) ==
    LET chk == HostCheck(rs, ps, sid, rid, "Only the host can start the game") IN
    IF chk # "none" THEN {Rejected(rs, ps, chk)}
    ELSE LET sg == startGame(rs, rid) IN
         IF sg.err # "none" THEN {Rejected(sg.rooms, ps, sg.err)}
         ELSE {IF nr.err # "none" THEN Rejected(nr.rooms, ps, nr.err)
               ELSE Out(nr.rooms, ps, TRUE, "none", emitGameState(nr.rooms, rid), TRUE)
               : nr \in nextRoundOf(catalog, sg.rooms, rid, t)}

\* socket.on('start_game') with the catalog of the build.
start_game(rs, ps, sid, rid, t) == start_gameOf(SONGS, rs, ps, sid, rid, t)

\* The common tail of next_round and reset_round: after the manager call
\* returned, a room in GAME_OVER is broadcast and nothing is scheduled;
\* otherwise the startRoundPlaying callback is scheduled.
Advance(ps, rid, results) ==
    {IF r.err # "none" THEN Rejected(r.rooms, ps, r.err)
     ELSE Out(r.rooms, ps, TRUE, "none", emitGameState(r.rooms, rid),
              r.rooms[rid].state # "GAME_OVER")
     : r \in results}

\* socket.on('next_round'): the set of outcomes.
next_round(rs, ps, sid, rid, t) ==
    LET chk == HostCheck(rs, ps, sid, rid, "Only the host can advance to next round") IN
    IF chk # "none" THEN {Rejected(rs, ps, chk)}
    ELSE Advance(ps, rid, nextRound(rs, rid, t))

\* socket.on('reset_round'): the set of outcomes.
reset_round(rs, ps, sid, rid, t) ==
    LET chk == HostCheck(rs, ps, sid, rid, "Only the host can reset the round") IN
    IF chk # "none" THEN {Rejected(rs, ps, chk)}
    ELSE Advance(ps, rid, resetRound(rs, rid, t))

\* socket.on('buzz'): success is handleBuzz's return value (wasFirst).
buzz(rs, ps, sid, rid, t) ==
    IF sid \notin DOMAIN ps THEN Rejected(rs, ps, "Player not found")
    ELSE LET hb == handleBuzz(rs, rid, sid, t) IN
         Out(hb.rooms, ps, hb.ret, hb.err,
             IF hb.ret THEN emitGameState(hb.rooms, rid) ELSE NoCode, FALSE)

\* socket.on('show_result')
show_result(rs, ps, sid, rid) ==
    LET chk == HostCheck(rs, ps, sid, rid, "Only the host can show results") IN
    IF chk # "none" THEN Rejected(rs, ps, chk)
    ELSE LET sr == showRoundResult(rs, rid) IN
         IF sr.err # "none" THEN Rejected(sr.rooms, ps, sr.err)
         ELSE Out(sr.rooms, ps, TRUE, "none", emitGameState(sr.rooms, rid), FALSE)

\* socket.on('update_score')
update_score(rs, ps, sid, rid, playerId, points) ==
    LET chk == HostCheck(rs, ps, sid, rid, "Only the host can update scores") IN
    IF chk # "none" THEN Rejected(rs, ps, chk)
    ELSE LET us == updateScore(rs, rid, playerId, points) IN
         IF us.err # "none" THEN Rejected(us.rooms, ps, us.err)
         ELSE Out(us.rooms, ps, TRUE, "none", emitGameState(us.rooms, rid), FALSE)

\* host_give_score without the karaoke-round check.
host_give_scoreAnyRound(rs, ps, sid, rid, playerId, scoreAmount) ==
    LET chk == HostCheck(rs, ps, sid, rid, "Only the host can give scores") IN
    IF chk # "none" THEN Rejected(rs, ps, chk)
    ELSE IF scoreAmount < 0 \/ scoreAmount > MaxGiveScore
    THEN Rejected(rs, ps, "Score amount must be between 0 and 10")
    ELSE LET gs == giveScore(rs, rid, playerId, scoreAmount) IN
         IF gs.err # "none" THEN Rejected(gs.rooms, ps, gs.err)
         ELSE Out(gs.rooms, ps, TRUE, "none", emitGameState(gs.rooms, rid), FALSE)

\* socket.on('host_give_score')
host_give_score(rs, ps, sid, rid, playerId, scoreAmount) ==
    LET chk == HostCheck(rs, ps, sid, rid, "Only the host can give scores") IN
    IF chk # "none" THEN Rejected(rs, ps, chk)
    ELSE IF rs[rid].currentRound = <<>> \/ ~rs[rid].currentRound[1].isKaraoke
    THEN Rejected(rs, ps, "This action is only available in karaoke rounds")
    ELSE IF scoreAmount < 0 \/ scoreAmount > MaxGiveScore
    THEN Rejected(rs, ps, "Score amount must be between 0 and 10")
    ELSE LET gs == giveScore(rs, rid, playerId, scoreAmount) IN
         IF gs.err # "none" THEN Rejected(gs.rooms, ps, gs.err)
         ELSE Out(gs.rooms, ps, TRUE, "none", emitGameState(gs.rooms, rid), FALSE)

\* socket.on('disconnect'): it emits only when removePlayer returned both a
\* player and a room.
disconnect(rs, ps, sid) ==
    LET rp == removePlayer(rs, ps, sid) IN
    Out(rp.rooms, rp.players, TRUE, "none",
        IF rp.player /\ rp.room # NoCode THEN emitGameState(rp.rooms, rp.room) ELSE NoCode,
        FALSE)

\* socket.on('disconnect'): the room the player_left notification is sent
\* to (NoCode for none); it is sent under the same condition, and
\* socket.to(room.id) does not look the room up in the manager.
player_left(rs, ps, sid) ==
    LET rp == removePlayer(rs, ps, sid) IN
    IF rp.player /\ rp.room # NoCode THEN rp.room ELSE NoCode

\* The setTimeout callback of start_game / next_round / reset_round.
timer_callback(rs, ps, rid, t) ==
    LET sp == startRoundPlaying(rs, rid, t) IN
    IF sp.err # "none" THEN Rejected(sp.rooms, ps, sp.err)
    ELSE Out(sp.rooms, ps, TRUE, "none", emitGameState(sp.rooms, rid), FALSE)

\* ------------------------------------------------------------ the machine
Init ==
    /\ rooms = <<>>
    /\ players = <<>>
    /\ sockets = Sids
    /\ pending = [c \in Codes |-> 0]
    /\ now = 0
    /\ uncaught = <<>>

Running == uncaught = <<>>

\* Whether every score is within the model's cap.
ScoresCapped(rs) ==
    \A c \in DOMAIN rs : \A i \in 1..Len(rs[c].players) : rs[c].players[i].score <= MaxScore

\* An event from connected socket sid about room code rid is handled: one of
\* the handler's outcomes becomes the new state.
Handle(sid, rid, outs) ==
    /\ Running /\ sid \in sockets
    /\ \E o \in outs :
          /\ ScoresCapped(o.rooms)
          /\ rooms' = o.rooms
          /\ players' = o.players
          /\ IF o.timer
             THEN /\ pending[rid] < MaxPending
                  /\ pending' = [pending EXCEPT ![rid] = @ + 1]
             ELSE UNCHANGED pending
    /\ UNCHANGED <<now, uncaught>>

JoinGame(sid, role, name, rid, gen, avatar) ==
    /\ Handle(sid, rid, {join_game(rooms, players, sid, role, name, rid, gen, avatar)})
    /\ UNCHANGED sockets

StartGame(sid, rid) ==
    /\ Handle(sid, rid, start_game(rooms, players, sid, rid, now))
    /\ UNCHANGED sockets

NextRound(sid, rid) ==
    /\ Handle(sid, rid, next_round(rooms, players, sid, rid, now))
    /\ UNCHANGED sockets

ResetRound(sid, rid) ==
    /\ Handle(sid, rid, reset_round(rooms, players, sid, rid, now))
    /\ UNCHANGED sockets

Buzz(sid, rid) ==
    /\ Handle(sid, rid, {buzz(rooms, players, sid, rid, now)})
    /\ UNCHANGED sockets

ShowResult(sid, rid) ==
    /\ Handle(sid, rid, {show_result(rooms, players, sid, rid)})
    /\ UNCHANGED sockets

UpdateScore(sid, rid, playerId, points) ==
    /\ Handle(sid, rid, {update_score(rooms, players, sid, rid, playerId, points)})
    /\ UNCHANGED sockets

HostGiveScore(sid, rid, playerId, scoreAmount) ==
    /\ Handle(sid, rid, {host_give_score(rooms, players, sid, rid, playerId, scoreAmount)})
    /\ UNCHANGED sockets

\* The connection is gone for good: a socket id is never reused.
Disconnect(sid) ==
    /\ Handle(sid, NoCode, {disconnect(rooms, players, sid)})
    /\ sockets' = sockets \ {sid}

\* A scheduled callback for room code rid runs.  It has no try/catch: an
\* Error thrown by startRoundPlaying is an uncaught exception on the event
\* loop, which ends the process.
TimerFires(rid) ==
    /\ Running /\ pending[rid] > 0
    /\ pending' = [pending EXCEPT ![rid] = @ - 1]
    /\ LET o == timer_callback(rooms, players, rid, now) IN
       /\ rooms' = o.rooms
       /\ uncaught' = IF o.success THEN <<>> ELSE <<[error |-> o.error, roomId |-> rid]>>
    /\ UNCHANGED <<players, sockets, now>>

\* Date.now() advances between events.
Tick ==
    /\ Running /\ now < MaxNow
    /\ now' = now + 1
    /\ UNCHANGED <<rooms, players, sockets, pending, uncaught>>

\* The events sessions S can send about room codes C; join_game carries a
\* name of N and generateAvatar() returns an avatar of A.
JoinEvents(S, C, N, A) ==
    \E sid \in S, role \in {"host", "player"}, rid \in C \cup {NoCode} :
       \E gen \in IF role = "host" /\ rid = NoCode THEN C ELSE {NoCode} :
          \E name \in N, avatar \in A :
             JoinGame(sid, role, name, rid, gen, avatar)

RoundEvents(S, C) ==
    \/ \E sid \in S, rid \in C : StartGame(sid, rid)
    \/ \E sid \in S, rid \in C : Buzz(sid, rid)

HostEvents(S, C) ==
    \/ \E sid \in S, rid \in C : NextRound(sid, rid)
    \/ \E sid \in S, rid \in C : ResetRound(sid, rid)
    \/ \E sid \in S, rid \in C : ShowResult(sid, rid)

ScoreEvents(S, C) ==
    \/ \E sid \in S, rid \in C, playerId \in S, points \in Points :
          UpdateScore(sid, rid, playerId, points)
    \/ \E sid \in S, rid \in C, playerId \in S, scoreAmount \in Amounts :
          HostGiveScore(sid, rid, playerId, scoreAmount)

Leave(S) == \E sid \in S : Disconnect(sid)

Timers(C) == \E rid \in C : TimerFires(rid)

Next ==
    \/ JoinEvents(Sids, Codes, Names, Avatars)
    \/ RoundEvents(Sids, Codes)
    \/ HostEvents(Sids, Codes)
    \/ ScoreEvents(Sids, Codes)
    \/ Leave(Sids)
    \/ Timers(Codes)
    \/ Tick

\* The complete machine.  Its state space is the product of the rooms' games,
\* of the scores and of the timestamps; the claims are checked on the
\* sub-machines below, every behaviour of which is a behaviour of Spec.  No
\* operation reads a score or a timestamp, and no operation on one room reads
\* another room.
Spec == Init /\ [][Next]_vars

\* One room code, every session: joining, leaving, every round event, the
\* timers and the clock.
OneRoom == {x \in Codes : \A y \in Codes : x <= y}

\* One display name and one avatar: no operation reads a name or an avatar.
OneName == {x \in Names : \A y \in Names : x <= y}
OneAvatar == {x \in Avatars : \A y \in Avatars : x <= y}

NextOneRoom ==
    \/ JoinEvents(Sids, OneRoom, OneName, OneAvatar)
    \/ RoundEvents(Sids, OneRoom)
    \/ HostEvents(Sids, OneRoom)
    \/ Leave(Sids)
    \/ Timers(OneRoom)
    \/ Tick

SpecOneRoom == Init /\ [][NextOneRoom]_vars

\* One room code, every session: every event, the scoring events included,
\* and the timers, at one instant of the clock.
NextScores ==
    \/ JoinEvents(Sids, OneRoom, OneName, OneAvatar)
    \/ RoundEvents(Sids, OneRoom)
    \/ HostEvents(Sids, OneRoom)
    \/ ScoreEvents(Sids, OneRoom)
    \/ Leave(Sids)
    \/ Timers(OneRoom)

SpecScores == Init /\ [][NextScores]_vars

\* Every room code and every session: joining, leaving and the first round of
\* each room (start_game, its timer and the buzzes).
NextRooms ==
    \/ JoinEvents(Sids, Codes, OneName, OneAvatar)
    \/ RoundEvents(Sids, Codes)
    \/ Leave(Sids)
    \/ Timers(Codes)

SpecRooms == Init /\ [][NextRooms]_vars

\* One room code, every session, every display name and avatar: joining,
\* leaving and scoring in the lobby.
NextLobby ==
    \/ JoinEvents(Sids, OneRoom, Names, Avatars)
    \/ \E sid \in Sids, rid \in OneRoom, playerId \in Sids, points \in Points :
          UpdateScore(sid, rid, playerId, points)
    \/ Leave(Sids)

SpecLobby == Init /\ [][NextLobby]_vars

\* Every room code, two sessions: joining, the first round of each room up
\* to its result, and the scores, with the timers.  A session that joins the
\* second room stays a member of the first, so both rooms can be started.
Pair == {x \in Sids : x <= MinPlayers}

NextPair ==
    \/ JoinEvents(Pair, Codes, OneName, OneAvatar)
    \/ RoundEvents(Pair, Codes)
    \/ \E sid \in Pair, rid \in Codes : ShowResult(sid, rid)
    \/ \E sid \in Pair, rid \in Codes, playerId \in Pair, points \in Points :
          UpdateScore(sid, rid, playerId, points)
    \/ Timers(Codes)

SpecPair == Init /\ [][NextPair]_vars

\* ------------------------------------------------------------ properties
HasRound(room) == room.currentRound # <<>>
Round(room) == room.currentRound[1]
Buzzed(room) == HasRound(room) /\ Round(room).buzzedPlayerId # NoSid
Times == 0..MaxNow

\* C1: in a room in ROUND_PLAYING the first buzz processed, whichever
\* registered session sends it, is acknowledged with true, is recorded as the
\* round's buzz winner and moves the room to ROUND_LOCKED; every buzz
\* processed after it for that round, from any session, returns false.
C1_FirstBuzzWins ==
    \A r \in DOMAIN rooms : \A sid \in DOMAIN players :
       rooms[r].state = "ROUND_PLAYING" =>
          LET first == buzz(rooms, players, sid, r, now) IN
          /\ first.success
          /\ first.rooms[r].state = "ROUND_LOCKED"
          /\ HasRound(first.rooms[r])
          /\ Round(first.rooms[r]).buzzedPlayerId = sid
          /\ \A other \in DOMAIN players : \A t \in Times :
                LET second == buzz(first.rooms, first.players, other, r, t) IN
                ~second.success /\ second.rooms = first.rooms

\* C1 witness: a round has been won and locked while another member of the
\* room, still connected, can send the losing buzz.
C1_Witness ==
    \E r \in DOMAIN rooms : \E loser \in MemberIds(rooms[r]) \cap sockets :
       /\ rooms[r].state = "ROUND_LOCKED"
       /\ Buzzed(rooms[r])
       /\ Round(rooms[r]).buzzedPlayerId # loser
       /\ loser \in DOMAIN players

\* C2: once a round's buzz winner is set no step changes it (or the buzz
\* time) while that round record is in place, and a handleBuzz call against a
\* round that already has a winner returns false and changes nothing.
C2_WinnerImmutable ==
    /\ [](\A r \in DOMAIN rooms : \A sid \in Sids : \A t \in Times :
            Buzzed(rooms[r]) =>
               handleBuzz(rooms, r, sid, t) = [rooms |-> rooms, err |-> "none", ret |-> FALSE])
    /\ [][\A r \in DOMAIN rooms \cap DOMAIN rooms' :
            (Buzzed(rooms[r]) /\ Buzzed(rooms'[r])) =>
               /\ Round(rooms'[r]).buzzedPlayerId = Round(rooms[r]).buzzedPlayerId
               /\ Round(rooms'[r]).buzzTime = Round(rooms[r]).buzzTime]_vars

\* C2 witness: a round with a recorded winner, at a later time than the buzz,
\* with a second member connected who can buzz again.
C2_Witness ==
    \E r \in DOMAIN rooms :
       /\ Buzzed(rooms[r])
       /\ Round(rooms[r]).buzzTime < now
       /\ \E sid \in (MemberIds(rooms[r]) \cap sockets) \ {Round(rooms[r]).buzzedPlayerId} :
             sid \in DOMAIN players

\* C3: every room of the registry has at least one member (a room whose
\* membership becomes empty leaves the registry in the same removePlayer step).
C3_NoEmptyRoom ==
    \A r \in DOMAIN rooms : Len(rooms[r].players) >= 1

\* C3 witness: a room code whose room was started and then deleted when its
\* last member left (its timer is still pending), with a room still live.
C3_Witness ==
    /\ \E r \in Codes : pending[r] > 0 /\ r \notin DOMAIN rooms
    /\ \E r \in DOMAIN rooms : Len(rooms[r].players) = 1

\* C4: the hostId of every room is the id of a player in that room's map.
C4_HostIsMember ==
    \A r \in DOMAIN rooms : rooms[r].hostId \in MemberIds(rooms[r])

\* C4 witness: a started room (it had two members when it started) that
\* removePlayer has reduced to a single member, its host.
C4_Witness ==
    \E r \in DOMAIN rooms :
       /\ rooms[r].state # "LOBBY"
       /\ Len(rooms[r].players) = 1
       /\ Cardinality(sockets) < NumSessions

\* C5: every session id is in the player map of at most one room.
C5_OneRoomPerSession ==
    \A sid \in Sids :
       Cardinality({r \in DOMAIN rooms : sid \in MemberIds(rooms[r])}) <= 1

\* A timer callback ran in this step for room code rid.
Fired(rid) == pending'[rid] < pending[rid]

\* C6: a startRoundPlaying callback that fires after its room was deleted
\* changes no room or player state and lets no failure escape.
C6_DeletedRoomTimerNoop ==
    [][\A rid \in Codes :
          (Fired(rid) /\ rid \notin DOMAIN rooms) =>
             (rooms' = rooms /\ players' = players /\ uncaught' = <<>>)]_vars

\* C7: a startRoundPlaying callback that fires while its room exists but is
\* not in ROUND_LOADING leaves the room as it is and lets no failure escape.
C7_StaleTimerNoop ==
    [][\A rid \in Codes :
          (Fired(rid) /\ rid \in DOMAIN rooms /\ rooms[rid].state # "ROUND_LOADING") =>
             (rooms' = rooms /\ uncaught' = <<>>)]_vars

\* The edges of the room state machine as the specification draws it.
SpecEdges ==
    {<<"LOBBY", "ROUND_LOADING">>, <<"ROUND_LOADING", "ROUND_PLAYING">>,
     <<"ROUND_PLAYING", "ROUND_LOCKED">>, <<"ROUND_LOCKED", "ROUND_RESULT">>,
     <<"ROUND_RESULT", "ROUND_LOADING">>, <<"ROUND_RESULT", "GAME_OVER">>}

\* The edges nextRound / resetRound add because they do not look at the state
\* the round is in.
AdvanceEdges ==
    {<<"ROUND_LOADING", "GAME_OVER">>,
     <<"ROUND_PLAYING", "ROUND_LOADING">>, <<"ROUND_PLAYING", "GAME_OVER">>,
     <<"ROUND_LOCKED", "ROUND_LOADING">>, <<"ROUND_LOCKED", "GAME_OVER">>}

StateChanges(edges) ==
    \A r \in DOMAIN rooms \cap DOMAIN rooms' :
       rooms'[r].state # rooms[r].state =>
          <<rooms[r].state, rooms'[r].state>> \in edges

\* C8 as stated: every change of a room's state tag follows one of the six
\* edges of the specification's diagram.
C8_OnlySpecEdges == [][StateChanges(SpecEdges)]_vars

\* C8 as amended: every change of a room's state tag follows one of the six
\* edges or one of the edges an advance from a round in progress adds.
C8_OnlyCodeEdges == [][StateChanges(SpecEdges \cup AdvanceEdges)]_vars

\* C8 witness: a round is being played, a callback of an earlier advance is
\* still pending, and the host's next_round is accepted and takes the room
\* from ROUND_PLAYING back to ROUND_LOADING.
C8_Witness ==
    \E r \in DOMAIN rooms :
       /\ rooms[r].state = "ROUND_PLAYING"
       /\ rooms[r].hostId \in sockets
       /\ pending[r] > 0 /\ pending[r] < MaxPending
       /\ \E o \in next_round(rooms, players, rooms[r].hostId, r, now) :
             o.success /\ o.timer /\ o.rooms[r].state = "ROUND_LOADING"

\* C9: a room enters the registry in LOBBY, and no step changes the state
\* tag, the round counter or the transient round of a room in GAME_OVER.
C9_GameOverTerminal ==
    [][/\ \A r \in DOMAIN rooms' \ DOMAIN rooms : rooms'[r].state = "LOBBY"
       /\ \A r \in DOMAIN rooms \cap DOMAIN rooms' :
             rooms[r].state = "GAME_OVER" =>
                /\ rooms'[r].state = "GAME_OVER"
                /\ rooms'[r].roundNumber = rooms[r].roundNumber
                /\ rooms'[r].currentRound = rooms[r].currentRound]_vars

\* C9 witness: a room in GAME_OVER that has since lost a member, whose host
\* is connected: its next_round is accepted and changes nothing, its
\* start_game is refused.
C9_Witness ==
    \E r \in DOMAIN rooms :
       /\ rooms[r].state = "GAME_OVER"
       /\ Len(rooms[r].players) = 1
       /\ rooms[r].hostId \in sockets \cap DOMAIN players
       /\ \A o \in next_round(rooms, players, rooms[r].hostId, r, now) :
             o.success /\ o.rooms = rooms
       /\ \A o \in start_game(rooms, players, rooms[r].hostId, r, now) : ~o.success

\* C10: whenever a room has a transient round, the round's karaoke flag is
\* true exactly when the room's round counter equals its total-rounds target.
C10_KaraokeIffFinal ==
    \A r \in DOMAIN rooms :
       HasRound(rooms[r]) =>
          (Round(rooms[r]).isKaraoke <=> rooms[r].roundNumber = rooms[r].totalRounds)

\* C10 witness: the final round, flagged karaoke, has been buzzed.
C10_Witness ==
    \E r \in DOMAIN rooms :
       /\ Buzzed(rooms[r])
       /\ Round(rooms[r]).isKaraoke
       /\ rooms[r].roundNumber = NumRounds

\* C11: nextRound installs a song that is already in the room's songsPlayed
\* at the time of the call only when the catalog is smaller than the
\* total-rounds target and every catalog song is in songsPlayed, and then
\* songsPlayed is cleared and afterwards holds exactly the selected song.
C11_NoRepeatUnlessExhausted ==
    \A r \in DOMAIN rooms : \A res \in nextRound(rooms, r, now) :
       (res.err = "none" /\ res.rooms[r].roundNumber = rooms[r].roundNumber + 1) =>
          LET song == Round(res.rooms[r]).song
              used == Range(rooms[r].songsPlayed)
          IN \/ song \notin used
             \/ /\ NumSongs < rooms[r].totalRounds
                /\ SONGS \subseteq used
                /\ res.rooms[r].songsPlayed = <<song>>

\* The score of member sid of a room.
ScoreOf(room, sid) == room.players[IndexOf(room, sid)].score

\* The deltas updateScore is called with in the properties.
Deltas == (0 - MaxScore - 1)..(MaxScore + 1)

\* C12: every score is at least 0; updateScore of a member, with a positive
\* or negative delta, leaves score + delta when that is not negative and
\* exactly 0 when the delta is -score or lower; updateScore for a room that
\* does not exist or a player who is not a member of the room fails and
\* changes no score.
C12_ScoreFloorClamped ==
    /\ \A r \in DOMAIN rooms : \A sid \in MemberIds(rooms[r]) : ScoreOf(rooms[r], sid) >= 0
    /\ \A r \in Codes : \A sid \in Sids : \A d \in Deltas :
          LET us == updateScore(rooms, r, sid, d) IN
          IF r \in DOMAIN rooms /\ sid \in MemberIds(rooms[r])
          THEN LET old == ScoreOf(rooms[r], sid)
                   new == ScoreOf(us.rooms[r], sid)
               IN /\ us.err = "none"
                  /\ new >= 0
                  /\ (d >= 0 - old) => new = old + d
                  /\ (d <= 0 - old) => new = 0
          ELSE /\ us.err = (IF r \in DOMAIN rooms THEN "Player not found in room"
                            ELSE "Room not found")
               /\ us.rooms = rooms

\* C12 witness: the host, connected, has raised one member's score; another
\* member is at 0, where its update_score with -1 is accepted and leaves 0;
\* and a registered session is not a member of the room.
C12_Witness ==
    \E r \in DOMAIN rooms : \E p, q \in MemberIds(rooms[r]) :
       /\ rooms[r].hostId \in sockets \cap DOMAIN players
       /\ ScoreOf(rooms[r], p) > 0
       /\ ScoreOf(rooms[r], q) = 0
       /\ LET o == update_score(rooms, players, rooms[r].hostId, r, q, -1) IN
          o.success /\ ScoreOf(o.rooms[r], q) = 0
       /\ LET o == update_score(rooms, players, rooms[r].hostId, r, p, -1) IN
          o.success /\ ScoreOf(o.rooms[r], p) = ScoreOf(rooms[r], p) - 1
       /\ \E x \in Sids \ MemberIds(rooms[r]) :
             ~update_score(rooms, players, rooms[r].hostId, r, x, 1).success

\* The registry after the game of room r ended: GAME_OVER, no transient
\* round, everything else (round counter, songsPlayed, players) as before.
Ended(rs, r) == [rs EXCEPT ![r].state = "GAME_OVER", ![r].currentRound = <<>>]

\* C13: when the round counter of a room has reached its total-rounds target,
\* nextRound, and resetRound from ROUND_LOCKED or ROUND_RESULT, set the state
\* to GAME_OVER and clear the transient round without selecting a song: the
\* round counter and songsPlayed are unchanged; the host's next_round and
\* reset_round are then acknowledged and schedule no callback.
C13_GameOverAtTarget ==
    \A r \in DOMAIN rooms :
       rooms[r].roundNumber >= rooms[r].totalRounds =>
          /\ nextRound(rooms, r, now) = {[rooms |-> Ended(rooms, r), err |-> "none"]}
          /\ \A o \in next_round(rooms, players, rooms[r].hostId, r, now) :
                rooms[r].hostId \in DOMAIN players =>
                   o.success /\ ~o.timer /\ o.rooms = Ended(rooms, r)
          /\ rooms[r].state \in {"ROUND_LOCKED", "ROUND_RESULT"} =>
                /\ resetRound(rooms, r, now) = {[rooms |-> Ended(rooms, r), err |-> "none"]}
                /\ \A o \in reset_round(rooms, players, rooms[r].hostId, r, now) :
                      rooms[r].hostId \in DOMAIN players =>
                         o.success /\ ~o.timer /\ o.rooms = Ended(rooms, r)

\* C13 witness: the final round has been buzzed and its result shown, every
\* round's song is in songsPlayed, and the connected host's reset_round ends
\* the game.
C13_Witness ==
    \E r \in DOMAIN rooms :
       /\ rooms[r].state = "ROUND_RESULT"
       /\ rooms[r].roundNumber = rooms[r].totalRounds
       /\ Len(rooms[r].songsPlayed) = rooms[r].totalRounds
       /\ rooms[r].hostId \in sockets \cap DOMAIN players
       /\ \E o \in reset_round(rooms, players, rooms[r].hostId, r, now) :
             o.rooms[r].state = "GAME_OVER" /\ o.rooms[r].songsPlayed = rooms[r].songsPlayed

\* C14: startGame succeeds exactly when the room exists, is in LOBBY and has
\* at least 2 members; on success the room is in ROUND_LOADING with round
\* counter 0 and an empty songsPlayed and is otherwise as before; on each
\* failure (room not found, already started, fewer than 2 members) the
\* registry is unchanged.
C14_StartGameIff ==
    \A r \in Codes :
       LET sg == startGame(rooms, r) IN
       IF r \notin DOMAIN rooms
       THEN sg = [rooms |-> rooms, err |-> "Room not found"]
       ELSE IF rooms[r].state # "LOBBY"
       THEN sg = [rooms |-> rooms, err |-> "Game already started"]
       ELSE IF Cardinality(MemberIds(rooms[r])) < 2
       THEN sg = [rooms |-> rooms, err |-> "Need at least 2 players to start"]
       ELSE /\ sg.err = "none"
            /\ sg.rooms[r].state = "ROUND_LOADING"
            /\ sg.rooms[r].roundNumber = 0
            /\ sg.rooms[r].songsPlayed = <<>>
            /\ sg.rooms = [rooms EXCEPT ![r].state = "ROUND_LOADING",
                                        ![r].roundNumber = 0,
                                        ![r].songsPlayed = <<>>]

\* C14 witness: one room was started by its host once a second player had
\* joined (its first round is loading), while another room, in LOBBY with
\* its host alone and connected, is refused.
C14_Witness ==
    \E a, b \in DOMAIN rooms :
       /\ rooms[a].state = "ROUND_LOADING" /\ rooms[a].roundNumber = 1
       /\ Len(rooms[a].players) = 2 /\ pending[a] > 0
       /\ rooms[b].state = "LOBBY" /\ Len(rooms[b].players) = 1
       /\ rooms[b].hostId \in sockets \cap DOMAIN players
       /\ players[rooms[b].hostId].roomId = b
       /\ \A o \in start_game(rooms, players, rooms[b].hostId, b, now) :
             ~o.success /\ o.error = "Need at least 2 players to start" /\ o.rooms = rooms

\* A buzz for room code r cannot win: there is no such room, or the room is
\* not in ROUND_PLAYING, or it has no transient round, or the round already
\* has a buzz.
TooLate(rs, r) ==
    \/ r \notin DOMAIN rs
    \/ rs[r].state # "ROUND_PLAYING"
    \/ ~HasRound(rs[r])
    \/ Buzzed(rs[r])

\* C15 as stated: handleBuzz never signals a failure; in each of the four
\* cases (room not found included) it returns false and changes nothing.
C15_BuzzNeverThrows ==
    \A r \in Codes : \A sid \in Sids :
       TooLate(rooms, r) =>
          handleBuzz(rooms, r, sid, now) = [rooms |-> rooms, err |-> "none", ret |-> FALSE]

\* C15 as amended: handleBuzz signals 'Room not found' when the room does not
\* exist, and returns false without signalling when the room is not in
\* ROUND_PLAYING, has no transient round or already has a buzz; in all four
\* cases it changes nothing.
C15_BuzzThrowsOnlyNoRoom ==
    \A r \in Codes : \A sid \in Sids :
       TooLate(rooms, r) =>
          handleBuzz(rooms, r, sid, now) =
             [rooms |-> rooms,
              err |-> IF r \in DOMAIN rooms THEN "none" ELSE "Room not found",
              ret |-> FALSE]

\* C15 witness: a connected session registered in a room whose round is
\* locked by a buzz sends a buzz for a room code that names no room (refused
\* with 'Room not found') and one for its own room (refused without error).
C15_Witness ==
    \E a \in Codes \ DOMAIN rooms : \E b \in DOMAIN rooms :
       \E sid \in MemberIds(rooms[b]) \cap sockets \cap DOMAIN players :
          /\ Buzzed(rooms[b]) /\ rooms[b].state = "ROUND_LOCKED"
          /\ buzz(rooms, players, sid, a, now) = Rejected(rooms, players, "Room not found")
          /\ buzz(rooms, players, sid, b, now) = Rejected(rooms, players, "none")

\* The members of a room other than sid, in the order they joined.
Remaining(room, sid) == SelectSeq(room.players, LAMBDA p : p.id # sid)

\* C16: when a member of a room that has other members leaves, removePlayer
\* removes that player only: the room stays, the remaining members and their
\* scores are as before and in the same order, every other room is
\* untouched; if the leaver was the host, the earliest-joined remaining
\* member is the new host, otherwise the host is unchanged.
C16_HostTransfer ==
    \A sid \in DOMAIN players :
       LET r == players[sid].roomId IN
       (r \in DOMAIN rooms /\ sid \in MemberIds(rooms[r])
          /\ Len(Remaining(rooms[r], sid)) > 0) =>
          LET rp == removePlayer(rooms, players, sid)
              rest == Remaining(rooms[r], sid)
          IN /\ rp.player /\ rp.room = r
             /\ rp.players = Without(players, sid)
             /\ DOMAIN rp.rooms = DOMAIN rooms
             /\ \A x \in DOMAIN rooms \ {r} : rp.rooms[x] = rooms[x]
             /\ rp.rooms[r].players = rest
             /\ rp.rooms[r].hostId =
                   IF rooms[r].hostId = sid THEN rest[1].id ELSE rooms[r].hostId
             /\ rp.rooms[r] = [rooms[r] EXCEPT !.players = rest,
                                               !.hostId = rp.rooms[r].hostId]

\* C16 witness: a room of three members in which the third to join has a
\* score; its host, first in the room and connected, disconnects and the
\* second member becomes host while the third keeps its score.
C16_Witness ==
    \E r \in DOMAIN rooms :
       /\ Len(rooms[r].players) = 3
       /\ rooms[r].hostId = rooms[r].players[1].id
       /\ rooms[r].hostId \in sockets \cap DOMAIN players
       /\ rooms[r].players[3].score > 0
       /\ LET o == disconnect(rooms, players, rooms[r].hostId) IN
          /\ o.rooms[r].hostId = rooms[r].players[2].id
          /\ o.rooms[r].players = <<rooms[r].players[2], rooms[r].players[3]>>
          /\ o.emit = r

\* C17: when the only member of a room leaves, removePlayer deletes the room
\* from the registry, returns no room and returns the removed player, and the
\* disconnect handler sends neither a game-state broadcast nor a player_left
\* notification.
C17_LastLeaverDeletesRoom ==
    \A sid \in DOMAIN players :
       LET r == players[sid].roomId IN
       (r \in DOMAIN rooms /\ MemberIds(rooms[r]) = {sid}) =>
          LET rp == removePlayer(rooms, players, sid) IN
          /\ rp.rooms = Without(rooms, r)
          /\ rp.players = Without(players, sid)
          /\ rp.room = NoCode
          /\ rp.player
          /\ disconnect(rooms, players, sid).emit = NoCode
          /\ player_left(rooms, players, sid) = NoCode

\* C17 witness: one room was started and then deleted when its last member
\* left (its callback is still pending), and in another room the only
\* member, connected, is about to leave: its disconnect deletes that room.
C17_Witness ==
    \E a \in Codes \ DOMAIN rooms : \E b \in DOMAIN rooms :
       /\ pending[a] > 0
       /\ Len(rooms[b].players) = 1
       /\ rooms[b].hostId \in sockets \cap DOMAIN players
       /\ players[rooms[b].hostId].roomId = b
       /\ disconnect(rooms, players, rooms[b].hostId).rooms = <<>>

\* Member sid's GamePlayer record in a room.
PlayerOf(room, sid) == room.players[IndexOf(room, sid)]

\* C18: addPlayer for a session that is already a member of the room, with
\* whatever name, returns the member's existing record (score, name and
\* avatar as they were) and leaves the rooms and the registry as they were.
C18_AddPlayerIdempotent ==
    \A r \in DOMAIN rooms : \A sid \in MemberIds(rooms[r]) :
       \A name \in Names : \A avatar \in Avatars :
          addPlayer(rooms, players, sid, name, r, avatar) =
             [rooms |-> rooms, players |-> players, err |-> "none",
              player |-> PlayerOf(rooms[r], sid)]

\* C18 witness: a connected member with a score joins its room again under
\* another name while generateAvatar() would return another avatar: the
\* join_game is acknowledged and changes nothing.
C18_Witness ==
    \E r \in DOMAIN rooms : \E sid \in MemberIds(rooms[r]) \cap sockets :
       \E name \in Names : \E avatar \in Avatars :
          /\ Len(rooms[r].players) >= 2
          /\ PlayerOf(rooms[r], sid).score > 0
          /\ PlayerOf(rooms[r], sid).name # name
          /\ PlayerOf(rooms[r], sid).avatar # avatar
          /\ join_game(rooms, players, sid, "player", name, r, NoCode, avatar) =
                Out(rooms, players, TRUE, "none", r, FALSE)

\* C19: addPlayer fails with 'Room not found' exactly when the room code
\* names no room of the registry; otherwise it succeeds whatever the room's
\* state, and for a session that is not yet a member it appends a player
\* with score 0 and changes nothing else: state tag, round counter,
\* transient round, host, songsPlayed and the other players are as before.
C19_JoinInAnyState ==
    \A r \in Codes : \A sid \in Sids : \A name \in Names : \A avatar \in Avatars :
       LET ap == addPlayer(rooms, players, sid, name, r, avatar) IN
       IF r \notin DOMAIN rooms
       THEN /\ ap.err = "Room not found"
            /\ ap.rooms = rooms /\ ap.players = players
       ELSE /\ ap.err = "none"
            /\ sid \notin MemberIds(rooms[r]) =>
                  /\ ap.player.id = sid /\ ap.player.score = 0
                  /\ ap.player.name = name /\ ap.player.roomId = r
                  /\ ap.rooms = [rooms EXCEPT ![r].players = Append(@, ap.player)]
                  /\ ap.rooms[r].state = rooms[r].state
                  /\ ap.rooms[r].roundNumber = rooms[r].roundNumber
                  /\ ap.rooms[r].currentRound = rooms[r].currentRound
                  /\ ap.rooms[r].hostId = rooms[r].hostId
                  /\ \A x \in MemberIds(rooms[r]) :
                        PlayerOf(ap.rooms[r], x) = PlayerOf(rooms[r], x)
                  /\ DOMAIN ap.players = DOMAIN players \cup {sid}
                  /\ ap.players[sid].roomId = r

\* C19 witness: a round is locked by a buzz, a member has a score, and a
\* connected session that is not a member joins late: its join_game is
\* acknowledged, it is the third player, with score 0, and the round is as
\* it was.
C19_Witness ==
    \E r \in DOMAIN rooms : \E sid \in sockets \ MemberIds(rooms[r]) :
       /\ rooms[r].state = "ROUND_LOCKED" /\ Buzzed(rooms[r])
       /\ \E x \in MemberIds(rooms[r]) : PlayerOf(rooms[r], x).score > 0
       /\ \E name \in Names : \E avatar \in Avatars :
             LET o == join_game(rooms, players, sid, "player", name, r, NoCode, avatar) IN
             /\ o.success /\ o.emit = r
             /\ Len(o.rooms[r].players) = 3
             /\ PlayerOf(o.rooms[r], sid).score = 0
             /\ o.rooms[r].currentRound = rooms[r].currentRound

\* The room createRoom builds for host sid under a code.
FreshRoom(code, sid, name, avatar) ==
    [id |-> code, hostId |-> sid, state |-> "LOBBY",
     players |-> <<[id |-> sid, socketId |-> sid, name |-> name, score |-> 0,
                    avatar |-> avatar, roomId |-> code]>>,
     currentRound |-> <<>>, roundNumber |-> 0, totalRounds |-> NumRounds,
     songsPlayed |-> <<>>]

\* C20: createRoom called with a caller-supplied code (rid) that names an
\* existing room fails with 'Room already exists' and changes nothing; in
\* every other case, a call without a code included (the code is then the one
\* generateRoomId() returns, gen), it creates a room in LOBBY with round
\* counter 0, the total-rounds target, no transient round, an empty
\* songsPlayed and the caller as host and only member, with score 0.
C20_CreateRoom ==
    \A sid \in Sids : \A name \in Names : \A avatar \in Avatars :
       \A rid \in Codes \cup {NoCode} : \A gen \in Codes :
          LET code == IF rid # NoCode THEN rid ELSE gen
              cr == createRoom(rooms, players, sid, name, code, avatar)
          IN IF rid # NoCode /\ rid \in DOMAIN rooms
             THEN cr = [rooms |-> rooms, players |-> players, err |-> "Room already exists"]
             ELSE /\ cr.err = "none"
                  /\ cr.rooms = With(rooms, code, FreshRoom(code, sid, name, avatar))
                  /\ cr.players = With(players, sid, [id |-> sid, roomId |-> code])

\* The outcomes of every host-only event session sid can send about room
\* code r, over every payload.
HostOnlyOutcomes(sid, r) ==
    start_game(rooms, players, sid, r, now)
    \cup next_round(rooms, players, sid, r, now)
    \cup reset_round(rooms, players, sid, r, now)
    \cup {show_result(rooms, players, sid, r)}
    \cup {update_score(rooms, players, sid, r, p, d) : p \in Sids, d \in Points}
    \cup {host_give_score(rooms, players, sid, r, p, a) : p \in Sids, a \in Amounts}

\* C21: a host-only event (start_game, next_round, show_result,
\* update_score, host_give_score, reset_round) sent by a session that is not
\* the room's current host when it is processed is acknowledged as failed,
\* changes neither rooms nor registry, broadcasts nothing and schedules no
\* callback.
C21_HostOnly ==
    \A r \in Codes : \A sid \in Sids :
       (r \notin DOMAIN rooms \/ rooms[r].hostId # sid) =>
          \A o \in HostOnlyOutcomes(sid, r) :
             /\ ~o.success /\ o.error # "none"
             /\ o.rooms = rooms /\ o.players = players
             /\ o.emit = NoCode /\ ~o.timer

\* C21 witness: the karaoke round is locked by a buzz; a connected member who
\* is not the host sends each host-only event and each is refused as not
\* coming from the host, while the connected host's update_score for the same
\* player is accepted.
C21_Witness ==
    \E r \in DOMAIN rooms : \E sid \in (MemberIds(rooms[r]) \cap sockets) \ {rooms[r].hostId} :
       /\ rooms[r].state = "ROUND_LOCKED" /\ Round(rooms[r]).isKaraoke
       /\ sid \in DOMAIN players
       /\ rooms[r].hostId \in sockets \cap DOMAIN players
       /\ show_result(rooms, players, sid, r).error = "Only the host can show results"
       /\ host_give_score(rooms, players, sid, r, sid, 1).error = "Only the host can give scores"
       /\ update_score(rooms, players, sid, r, sid, 1).error = "Only the host can update scores"
       /\ \A o \in next_round(rooms, players, sid, r, now) :
             o.error = "Only the host can advance to next round"
       /\ \A o \in reset_round(rooms, players, sid, r, now) :
             o.error = "Only the host can reset the round"
       /\ \A o \in start_game(rooms, players, sid, r, now) :
             o.error = "Only the host can start the game"
       /\ update_score(rooms, players, rooms[r].hostId, r, sid, 1).success

\* The transient round of a room is flagged karaoke.
KaraokeRound(room) == HasRound(room) /\ Round(room).isKaraoke

\* C22: a host_give_score event is accepted, and changes a score, only when
\* the room's transient round is flagged karaoke; with no transient round or
\* a round that is not karaoke it is refused and rooms and scores are as they
\* were.
C22_GiveScoreKaraokeOnly ==
    \A r \in DOMAIN rooms : \A sid \in Sids : \A p \in Sids : \A a \in Amounts \cup {0} :
       LET o == host_give_score(rooms, players, sid, r, p, a) IN
       /\ ~KaraokeRound(rooms[r]) =>
             /\ ~o.success /\ o.rooms = rooms /\ o.emit = NoCode
             /\ sid = rooms[r].hostId /\ sid \in DOMAIN players =>
                   o.error = "This action is only available in karaoke rounds"
       /\ (o.success \/ o.rooms # rooms) => KaraokeRound(rooms[r])

\* C22 witness: the karaoke round's result is shown and the connected host
\* gives a point to a member at 0, which is accepted and raises that score.
C22_Witness ==
    \E r \in DOMAIN rooms : \E p \in MemberIds(rooms[r]) :
       /\ rooms[r].state = "ROUND_RESULT" /\ KaraokeRound(rooms[r])
       /\ rooms[r].hostId \in sockets \cap DOMAIN players
       /\ ScoreOf(rooms[r], p) = 0
       /\ LET o == host_give_score(rooms, players, rooms[r].hostId, r, p, 1) IN
          o.success /\ ScoreOf(o.rooms[r], p) = 1 /\ o.emit = r

\* The amounts giveScore is called with in the properties, and the number of
\* successive calls.
GiveAmounts == (0 - 1)..(MaxGiveScore + 1)
MaxCalls == 3

\* The rooms after k successive giveScore calls with the same arguments.
RECURSIVE GiveTimes(_, _, _, _, _)
GiveTimes(rs, r, p, a, k) ==
    IF k = 0 THEN rs ELSE GiveTimes(giveScore(rs, r, p, a).rooms, r, p, a, k - 1)

\* C23: giveScore with an amount below 0 or above 10 fails with the
\* invalid-amount error and changes no score; with an amount from 0 to 10 it
\* adds the amount to the member's score, so that k successive calls with
\* the same amount raise the score by k times the amount.
C23_GiveScoreAdds ==
    \A r \in DOMAIN rooms : \A p \in MemberIds(rooms[r]) : \A a \in GiveAmounts :
       LET gs == giveScore(rooms, r, p, a) IN
       IF a < 0 \/ a > 10
       THEN gs = [rooms |-> rooms, err |-> "Score amount must be between 0 and 10"]
       ELSE /\ gs.err = "none"
            /\ ScoreOf(gs.rooms[r], p) = ScoreOf(rooms[r], p) + a
            /\ \A k \in 0..MaxCalls :
                  ScoreOf(GiveTimes(rooms, r, p, a, k)[r], p) = ScoreOf(rooms[r], p) + k * a

\* C23 witness: in the karaoke round a member already holds a point; the
\* connected host's host_give_score of 1 for it is accepted and makes 2, and
\* one with amount 11 is refused.
C23_Witness ==
    \E r \in DOMAIN rooms : \E p \in MemberIds(rooms[r]) :
       /\ KaraokeRound(rooms[r])
       /\ rooms[r].hostId \in sockets \cap DOMAIN players
       /\ ScoreOf(rooms[r], p) = 1
       /\ LET o == host_give_score(rooms, players, rooms[r].hostId, r, p, 1) IN
          o.success /\ ScoreOf(o.rooms[r], p) = 2
       /\ host_give_score(rooms, players, rooms[r].hostId, r, p, 11) =
             Rejected(rooms, players, "Score amount must be between 0 and 10")

\* The registry with room r put in state st, with or without its transient
\* round: the room states an operation is tried in, the ones between two
\* manager calls of one handler included (ROUND_LOADING with no round after
\* startGame).
Variants(rs, r) ==
    {[rs EXCEPT ![r].state = st, ![r].currentRound = cr] :
        st \in GameState, cr \in {rs[r].currentRound, <<>>}}

\* C24: startRoundPlaying of an existing room succeeds exactly when the state
\* is ROUND_LOADING and a transient round is present: the state becomes
\* ROUND_PLAYING, the round's start time is set, and the song, the buzz
\* winner, the karaoke flag, the round counter and the rest are as before.
\* In every other case, ROUND_LOADING without a round included, it fails
\* with 'Invalid state transition' and changes nothing.
C24_StartRoundPlaying ==
    \A r \in DOMAIN rooms : \A rs \in Variants(rooms, r) : \A t \in Times :
       LET sp == startRoundPlaying(rs, r, t) IN
       IF rs[r].state = "ROUND_LOADING" /\ HasRound(rs[r])
       THEN /\ sp.err = "none"
            /\ sp.rooms[r].state = "ROUND_PLAYING"
            /\ Round(sp.rooms[r]).song = Round(rs[r]).song
            /\ Round(sp.rooms[r]).buzzedPlayerId = Round(rs[r]).buzzedPlayerId
            /\ Round(sp.rooms[r]).isKaraoke = Round(rs[r]).isKaraoke
            /\ sp.rooms[r].roundNumber = rs[r].roundNumber
            /\ sp.rooms = [rs EXCEPT ![r].state = "ROUND_PLAYING",
                                     ![r].currentRound[1].startTime = t]
       ELSE sp = [rooms |-> rs, err |-> "Invalid state transition"]

\* C24 witness: the callback of the round being played ran after the clock
\* had advanced, a second callback for the room is still pending, and were
\* it to run now it would be refused with 'Invalid state transition'.
C24_Witness ==
    \E r \in DOMAIN rooms :
       /\ rooms[r].state = "ROUND_PLAYING"
       /\ Round(rooms[r]).startTime > 0
       /\ pending[r] > 0
       /\ timer_callback(rooms, players, r, now) =
             Rejected(rooms, players, "Invalid state transition")

\* C25: showRoundResult of an existing room succeeds exactly from
\* ROUND_LOCKED: the state becomes ROUND_RESULT and the players and their
\* scores, the transient round (song, buzz winner, karaoke flag), the round
\* counter and songsPlayed are as before.  From any other state it fails with
\* 'Invalid state transition' and changes nothing.
C25_ShowRoundResult ==
    \A r \in DOMAIN rooms : \A rs \in Variants(rooms, r) :
       LET sr == showRoundResult(rs, r) IN
       IF rs[r].state = "ROUND_LOCKED"
       THEN /\ sr.err = "none"
            /\ sr.rooms[r].state = "ROUND_RESULT"
            /\ sr.rooms[r].players = rs[r].players
            /\ sr.rooms[r].currentRound = rs[r].currentRound
            /\ sr.rooms[r].roundNumber = rs[r].roundNumber
            /\ sr.rooms[r].songsPlayed = rs[r].songsPlayed
            /\ sr.rooms = [rs EXCEPT ![r].state = "ROUND_RESULT"]
       ELSE sr = [rooms |-> rs, err |-> "Invalid state transition"]

\* C25 witness: the result of a buzzed round is shown, the buzz winner is
\* still recorded and a member holds a score; the connected host's second
\* show_result is refused.
C25_Witness ==
    \E r \in DOMAIN rooms :
       /\ rooms[r].state = "ROUND_RESULT" /\ Buzzed(rooms[r])
       /\ \E p \in MemberIds(rooms[r]) : ScoreOf(rooms[r], p) > 0
       /\ rooms[r].hostId \in sockets \cap DOMAIN players
       /\ show_result(rooms, players, rooms[r].hostId, r) =
             Rejected(rooms, players, "Invalid state transition")

\* C26: resetRound of an existing room in ROUND_LOCKED or ROUND_RESULT has
\* the result of clearing the transient round and calling nextRound; in
\* LOBBY, ROUND_LOADING, ROUND_PLAYING and GAME_OVER it returns without error
\* and leaves the room unchanged, and the host's reset_round is then
\* acknowledged with the rooms as they were.
C26_ResetRound ==
    \A r \in DOMAIN rooms : \A t \in Times :
       /\ \A rs \in Variants(rooms, r) :
             IF rs[r].state \in {"ROUND_LOCKED", "ROUND_RESULT"}
             THEN resetRound(rs, r, t) =
                     nextRound([rs EXCEPT ![r].currentRound = <<>>], r, t)
             ELSE resetRound(rs, r, t) = {[rooms |-> rs, err |-> "none"]}
       /\ (rooms[r].state \in {"LOBBY", "ROUND_LOADING", "ROUND_PLAYING", "GAME_OVER"}
              /\ rooms[r].hostId \in DOMAIN players) =>
             \A o \in reset_round(rooms, players, rooms[r].hostId, r, t) :
                o.success /\ o.rooms = rooms /\ o.players = players

\* C26 witness: the first round is locked by a buzz and the connected host's
\* reset_round is accepted: the buzzed round is replaced by round 2,
\* unbuzzed and loading, and its callback is scheduled.
C26_Witness ==
    \E r \in DOMAIN rooms :
       /\ rooms[r].state = "ROUND_LOCKED" /\ Buzzed(rooms[r])
       /\ rooms[r].roundNumber = 1
       /\ rooms[r].hostId \in sockets \cap DOMAIN players
       /\ pending[r] < MaxPending
       /\ \A o \in reset_round(rooms, players, rooms[r].hostId, r, now) :
             /\ o.success /\ o.timer
             /\ o.rooms[r].state = "ROUND_LOADING"
             /\ o.rooms[r].roundNumber = 2
             /\ ~Buzzed(o.rooms[r])

\* C27: nextRound on a room in LOBBY behaves as startGame followed by the
\* advance: with at least 2 members every result is a room in ROUND_LOADING
\* with round counter 1 and a fresh transient round without a buzz; with
\* fewer it fails with 'Need at least 2 players to start' and the room stays
\* in LOBBY, unchanged.
C27_NextRoundFromLobby ==
    \A r \in DOMAIN rooms :
       rooms[r].state = "LOBBY" =>
          IF Cardinality(MemberIds(rooms[r])) >= 2
          THEN /\ nextRound(rooms, r, now) # {}
               /\ nextRound(rooms, r, now) = nextRound(startGame(rooms, r).rooms, r, now)
               /\ \A res \in nextRound(rooms, r, now) :
                     /\ res.err = "none"
                     /\ res.rooms[r].state = "ROUND_LOADING"
                     /\ res.rooms[r].roundNumber = 1
                     /\ HasRound(res.rooms[r]) /\ ~Buzzed(res.rooms[r])
                     /\ Round(res.rooms[r]).startTime = now
                     /\ res.rooms[r].songsPlayed = <<Round(res.rooms[r]).song>>
                     /\ res.rooms[r].players = rooms[r].players
          ELSE nextRound(rooms, r, now) =
                  {[rooms |-> rooms, err |-> "Need at least 2 players to start"]}

\* C27 witness: a room in LOBBY with two members whose connected host sends
\* next_round instead of start_game: it is accepted, round 1 is loading and
\* its callback is scheduled.
C27_Witness ==
    \E r \in DOMAIN rooms :
       /\ rooms[r].state = "LOBBY" /\ Len(rooms[r].players) = 2
       /\ rooms[r].hostId \in sockets \cap DOMAIN players
       /\ pending[r] = 0
       /\ \A o \in next_round(rooms, players, rooms[r].hostId, r, now) :
             /\ o.success /\ o.timer /\ o.emit = r
             /\ o.rooms[r].state = "ROUND_LOADING" /\ o.rooms[r].roundNumber = 1

\* The outcomes of every event a session can send about room code a, from
\* registries rs, ps.
RoomOutcomes(rs, ps, sid, a) ==
    {join_game(rs, ps, sid, role, name, a, NoCode, avatar) :
        role \in {"host", "player"}, name \in Names, avatar \in Avatars}
    \cup {join_game(rs, ps, sid, "host", name, NoCode, a, avatar) :
             name \in Names, avatar \in Avatars}
    \cup start_game(rs, ps, sid, a, now)
    \cup next_round(rs, ps, sid, a, now)
    \cup reset_round(rs, ps, sid, a, now)
    \cup {buzz(rs, ps, sid, a, now), show_result(rs, ps, sid, a)}
    \cup {update_score(rs, ps, sid, a, p, d) : p \in Sids, d \in Points}
    \cup {host_give_score(rs, ps, sid, a, p, x) : p \in Sids, x \in Amounts}

ScoresKept(rs, rs2, gone) ==
    \A c \in DOMAIN rs :
       IF c \in DOMAIN rs2
       THEN \A id \in MemberIds(rs[c]) \ gone :
               id \in MemberIds(rs2[c]) /\ ScoreOf(rs2[c], id) = ScoreOf(rs[c], id)
       ELSE MemberIds(rs[c]) \subseteq gone

\* C29: createRoom, addPlayer (of a member and of a newcomer), startGame,
\* nextRound, startRoundPlaying, handleBuzz, showRoundResult and resetRound,
\* whether they succeed or throw, leave every room with every member and
\* every member's score as it was; removePlayer does so for every member
\* other than the one removed; and updateScore of a member is accepted,
\* with the score set to max(0, score + points), in each of the six states.
C29_ScoreOnlyByScoring ==
    /\ \A rid \in Codes : \A sid \in Sids : \A t \in Times :
          /\ \A name \in Names : \A avatar \in Avatars :
                /\ ScoresKept(rooms,
                       createRoom(rooms, players, sid, name, rid, avatar).rooms, {})
                /\ ScoresKept(rooms,
                       addPlayer(rooms, players, sid, name, rid, avatar).rooms, {})
          /\ ScoresKept(rooms, startGame(rooms, rid).rooms, {})
          /\ \A nr \in nextRound(rooms, rid, t) : ScoresKept(rooms, nr.rooms, {})
          /\ ScoresKept(rooms, startRoundPlaying(rooms, rid, t).rooms, {})
          /\ ScoresKept(rooms, handleBuzz(rooms, rid, sid, t).rooms, {})
          /\ ScoresKept(rooms, showRoundResult(rooms, rid).rooms, {})
          /\ \A rr \in resetRound(rooms, rid, t) : ScoresKept(rooms, rr.rooms, {})
    /\ \A sid \in Sids : ScoresKept(rooms, removePlayer(rooms, players, sid).rooms, {sid})
    /\ \A r \in DOMAIN rooms : \A rs \in Variants(rooms, r) :
          \A id \in MemberIds(rs[r]) : \A d \in Deltas :
             LET us == updateScore(rs, r, id, d) IN
             /\ us.err = "none"
             /\ ScoreOf(us.rooms[r], id) = Max(0, ScoreOf(rs[r], id) + d)

\* C29 witness: a locked room of three members, two of them with points; the
\* result is shown, the next round is loaded and a member other than the host
\* leaves with every remaining score as it was, and the host's update_score
\* is accepted and changes the score.
C29_Witness ==
    \E r \in DOMAIN rooms : \E p, q \in MemberIds(rooms[r]) :
       /\ p # q /\ q # rooms[r].hostId
       /\ Len(rooms[r].players) = NumSessions
       /\ rooms[r].state = "ROUND_LOCKED"
       /\ ScoreOf(rooms[r], p) > 0 /\ ScoreOf(rooms[r], q) > 0
       /\ q \in DOMAIN players /\ players[q].roomId = r
       /\ rooms[r].hostId \in sockets \cap DOMAIN players
       /\ LET sr == showRoundResult(rooms, r) IN
             /\ sr.err = "none"
             /\ ScoreOf(sr.rooms[r], p) = ScoreOf(rooms[r], p)
             /\ \A nr \in nextRound(sr.rooms, r, now) :
                   nr.err = "none" /\ ScoreOf(nr.rooms[r], p) = ScoreOf(rooms[r], p)
       /\ LET rp == removePlayer(rooms, players, q) IN
             /\ q \notin MemberIds(rp.rooms[r])
             /\ ScoreOf(rp.rooms[r], p) = ScoreOf(rooms[r], p)
       /\ LET o == update_score(rooms, players, rooms[r].hostId, r, p, -1) IN
             o.success /\ ScoreOf(o.rooms[r], p) = ScoreOf(rooms[r], p) - 1

\* The results of nextRound that succeeded without ending the game.
Advanced(rs, r, t) ==
    {res \in nextRound(rs, r, t) : res.err = "none" /\ res.rooms[r].state # "GAME_OVER"}

\* Whether room new is room old one round further: round counter one higher,
\* ROUND_LOADING, a new transient round without a buzz started at t, its
\* song the last entry of songsPlayed, host, members and target as before.
NewRound(old, new, t) ==
    /\ new.roundNumber = old.roundNumber + 1
    /\ new.state = "ROUND_LOADING"
    /\ HasRound(new) /\ ~Buzzed(new)
    /\ Round(new).buzzedPlayerId = NoSid /\ Round(new).buzzTime = NoTime
    /\ Round(new).startTime = t
    /\ Round(new).song \in SONGS
    /\ Len(new.songsPlayed) > 0
    /\ new.songsPlayed[Len(new.songsPlayed)] = Round(new).song
    /\ new.players = old.players /\ new.hostId = old.hostId
    /\ new.totalRounds = old.totalRounds /\ new.id = old.id

\* Whether nextRound can be called on the room with a round left to play.
CanAdvance(room) ==
    /\ room.state # "GAME_OVER"
    /\ room.roundNumber < room.totalRounds
    /\ room.state = "LOBBY" => Len(room.players) >= MinPlayers

\* C30 as stated: from every state other than GAME_OVER, a nextRound that
\* succeeds without ending the game leaves the room one round further and
\* songsPlayed as it was with the selected song appended.
C30_NextRoundAppends ==
    \A r \in DOMAIN rooms : \A t \in Times : \A res \in Advanced(rooms, r, t) :
       /\ NewRound(rooms[r], res.rooms[r], t)
       /\ res.rooms[r].songsPlayed =
             Append(rooms[r].songsPlayed, Round(res.rooms[r]).song)

\* C30: from every state other than GAME_OVER with a round left to play
\* (and 2 members when in LOBBY), every result of nextRound succeeds and
\* leaves the room one round further: round counter plus 1, ROUND_LOADING, a
\* new transient round without a buzz, and the selected song as the last
\* entry of songsPlayed, after the entries songsPlayed held, or as its only
\* entry when the draws ran out with a played song and songsPlayed was
\* cleared; the other rooms are as before.
C30_NextRoundAdvances ==
    \A r \in DOMAIN rooms : \A t \in Times :
       /\ CanAdvance(rooms[r]) =>
             /\ nextRound(rooms, r, t) # {}
             /\ nextRound(rooms, r, t) = Advanced(rooms, r, t)
       /\ \A res \in Advanced(rooms, r, t) :
             LET song == Round(res.rooms[r]).song IN
             /\ CanAdvance(rooms[r])
             /\ NewRound(rooms[r], res.rooms[r], t)
             /\ \/ res.rooms[r].songsPlayed = Append(rooms[r].songsPlayed, song)
                \/ /\ SONGS \cap Range(rooms[r].songsPlayed) # {}
                   /\ res.rooms[r].songsPlayed = <<song>>
             /\ \A c \in DOMAIN rooms \ {r} :
                   c \in DOMAIN res.rooms /\ res.rooms[c] = rooms[c]

\* C30 witness: a room whose first round is being played, not yet buzzed,
\* with that round's song in songsPlayed; nextRound has a result that appends
\* an unplayed song and a result that cleared songsPlayed, and the connected
\* host's next_round is accepted and schedules the callback.
C30_Witness ==
    \E r \in DOMAIN rooms :
       /\ rooms[r].state = "ROUND_PLAYING" /\ ~Buzzed(rooms[r])
       /\ rooms[r].roundNumber = 1 /\ Len(rooms[r].songsPlayed) = 1
       /\ rooms[r].hostId \in sockets \cap DOMAIN players
       /\ \E res \in Advanced(rooms, r, now) :
             /\ Len(res.rooms[r].songsPlayed) = 2
             /\ Round(res.rooms[r]).song \notin Range(rooms[r].songsPlayed)
       /\ \E res \in Advanced(rooms, r, now) : Len(res.rooms[r].songsPlayed) = 1
       /\ \A o \in next_round(rooms, players, rooms[r].hostId, r, now) :
             o.success /\ o.timer /\ o.rooms[r].roundNumber = 2

\* The outcomes of the host's next_round and reset_round on room r that
\* were accepted and installed a round with a higher round counter.
NewerRound(r) ==
    {o \in next_round(rooms, players, rooms[r].hostId, r, now)
             \cup reset_round(rooms, players, rooms[r].hostId, r, now) :
        /\ o.success /\ o.timer
        /\ o.rooms[r].roundNumber > rooms[r].roundNumber}

\* C31: when a callback is pending for a room and the host's next_round or
\* reset_round installs a newer round, the pending callback, which was
\* scheduled for an earlier round and fires first (timers of equal delay
\* fire in the order they were set), leaves the newer round's state and
\* start timestamp as they are.
C31_StaleTimerKeepsNewerRound ==
    \A r \in DOMAIN rooms :
       (Running /\ pending[r] > 0 /\ pending[r] < MaxPending) =>
          \A o \in NewerRound(r) : \A t \in Times :
             LET fired == timer_callback(o.rooms, o.players, r, t) IN
             /\ fired.rooms[r].state = o.rooms[r].state
             /\ fired.rooms[r].currentRound = o.rooms[r].currentRound

\* Every room code and every session, as SpecRooms, with every pending
\* callback eventually run: a timer that was set fires after its delay for
\* as long as the process lives.
SpecRoomsFair == SpecRooms /\ \A rid \in Codes : WF_vars(TimerFires(rid))

\* Room code rid names a room that is in ROUND_LOADING with a transient round.
Loading(rid) ==
    rid \in DOMAIN rooms /\ rooms[rid].state = "ROUND_LOADING" /\ HasRound(rooms[rid])

\* The first half of C32: a room in ROUND_LOADING with a transient round has
\* a callback pending.
LoadingHasTimer == \A rid \in Codes : Loading(rid) => pending[rid] > 0

\* C32: a room in ROUND_LOADING with a transient round eventually is in
\* ROUND_PLAYING, unless a client event ends its game or deletes it first.
C32_LoadingLeadsToPlaying ==
    \A rid \in Codes :
       Loading(rid) ~> \/ rid \notin DOMAIN rooms
                       \/ rooms[rid].state \in {"ROUND_PLAYING", "GAME_OVER"}

\* C33: a room in LOBBY or GAME_OVER has no transient round; a room in
\* ROUND_PLAYING has one without a buzz winner; a room in ROUND_LOCKED or
\* ROUND_RESULT has one with a buzz winner; a room in ROUND_LOADING has none
\* or one without a buzz winner.
C33_StateRoundConsistent ==
    \A r \in DOMAIN rooms :
       LET room == rooms[r] IN
       /\ room.state \in {"LOBBY", "GAME_OVER"} => ~HasRound(room)
       /\ room.state = "ROUND_PLAYING" =>
             HasRound(room) /\ Round(room).buzzedPlayerId = NoSid
       /\ room.state \in {"ROUND_LOCKED", "ROUND_RESULT"} =>
             HasRound(room) /\ Round(room).buzzedPlayerId # NoSid
       /\ room.state = "ROUND_LOADING" =>
             (HasRound(room) => Round(room).buzzedPlayerId = NoSid)

\* C33 witness: the second round of a room, entered after the first was
\* buzzed and advanced, has its result shown with its buzz winner recorded,
\* and the host's next_round then ends the game without a round.
C33_Witness ==
    \E r \in DOMAIN rooms :
       /\ rooms[r].state = "ROUND_RESULT" /\ rooms[r].roundNumber = 2
       /\ HasRound(rooms[r]) /\ Round(rooms[r]).buzzedPlayerId \in Sids
       /\ rooms[r].hostId \in sockets \cap DOMAIN players
       /\ \A o \in next_round(rooms, players, rooms[r].hostId, r, now) :
             o.rooms[r].state = "GAME_OVER" /\ ~HasRound(o.rooms[r])

\* C34: every room has 0 <= roundNumber <= totalRounds; a room in LOBBY has
\* roundNumber 0 and a room in GAME_OVER has roundNumber = totalRounds; and
\* no step changes the totalRounds of a room that stays in the registry.
C34_RoundNumberBounds ==
    \A r \in DOMAIN rooms :
       /\ rooms[r].roundNumber >= 0
       /\ rooms[r].roundNumber <= rooms[r].totalRounds
       /\ rooms[r].state = "LOBBY" => rooms[r].roundNumber = 0
       /\ rooms[r].state = "GAME_OVER" => rooms[r].roundNumber = rooms[r].totalRounds
       /\ rooms[r].totalRounds = NumRounds
       /\ \A sid \in Sids : \A o \in HostOnlyOutcomes(sid, r) :
             r \in DOMAIN o.rooms /\ o.rooms[r].totalRounds = rooms[r].totalRounds

\* C34 witness: a game that ended after its last round, with the round
\* counter at the target.
C34_Witness ==
    \E r \in DOMAIN rooms :
       /\ rooms[r].state = "GAME_OVER"
       /\ rooms[r].roundNumber = rooms[r].totalRounds
       /\ Len(rooms[r].songsPlayed) > 0

\* Whether sequence q holds no value twice.
NoDuplicates(q) == \A i, j \in 1..Len(q) : q[i] = q[j] => i = j

\* C35: songsPlayed of every room holds no song twice, has at most
\* roundNumber entries and, when the room has a transient round, ends with
\* that round's song.
C35_SongsPlayedConsistent ==
    \A r \in DOMAIN rooms :
       LET q == rooms[r].songsPlayed IN
       /\ NoDuplicates(q)
       /\ Len(q) <= rooms[r].roundNumber
       /\ HasRound(rooms[r]) => Len(q) > 0 /\ q[Len(q)] = Round(rooms[r]).song

\* C35 witness: the second round of a room is on with two different songs in
\* songsPlayed, the second of them the round's.
C35_Witness ==
    \E r \in DOMAIN rooms :
       /\ rooms[r].roundNumber = 2 /\ HasRound(rooms[r])
       /\ Len(rooms[r].songsPlayed) = 2
       /\ rooms[r].songsPlayed[1] # rooms[r].songsPlayed[2]
       /\ rooms[r].songsPlayed[2] = Round(rooms[r]).song

\* C36: a buzz event that is accepted comes from a member of the room it
\* names: the session recorded as the round's buzz winner is in the room's
\* player map when the buzz is processed.
C36_BuzzWinnerIsMember ==
    \A r \in DOMAIN rooms : \A sid \in Sids :
       LET o == buzz(rooms, players, sid, r, now) IN
       o.success =>
          /\ Round(o.rooms[r]).buzzedPlayerId = sid
          /\ sid \in MemberIds(rooms[r])

\* C37: every member listed in a room is a registered player whose registry
\* record names that room; and when no session is registered any more
\* (every session that joined has disconnected) no room is left.
C37_NoRoomOutlivesMembers ==
    /\ \A r \in DOMAIN rooms : \A id \in MemberIds(rooms[r]) :
          id \in DOMAIN players /\ players[id].roomId = r
    /\ DOMAIN players = {} => DOMAIN rooms = {}

\* The results of every manager operation called for room code rid by or
\* for session sid, with the catalog of the build, that threw.
Failures(rid, sid) ==
    {x \in
        {createRoom(rooms, players, sid, n, rid, a) : n \in Names, a \in Avatars}
        \cup {[rooms |-> ap.rooms, players |-> ap.players, err |-> ap.err] :
                 ap \in {addPlayer(rooms, players, sid, n, rid, a) :
                            n \in Names, a \in Avatars}}
        \cup {[rooms |-> res.rooms, players |-> players, err |-> res.err] :
                 res \in {startGame(rooms, rid), startRoundPlaying(rooms, rid, now),
                          showRoundResult(rooms, rid)}
                         \cup nextRound(rooms, rid, now)
                         \cup resetRound(rooms, rid, now)
                         \cup {updateScore(rooms, rid, sid, d) : d \in Deltas}
                         \cup {giveScore(rooms, rid, sid, amt) : amt \in Amounts}}
        \cup {LET hb == handleBuzz(rooms, rid, sid, now) IN
              [rooms |-> hb.rooms, players |-> players, err |-> hb.err]} :
     x.err # "none"}

\* Every manager operation that throws, with the catalog of the build, leaves
\* the rooms and the player registry as they were.
FailuresAtomic ==
    \A rid \in Codes : \A sid \in Sids : \A x \in Failures(rid, sid) :
       x.rooms = rooms /\ x.players = players

C39_RegistryNamesLiveRoom ==
    \A sid \in DOMAIN players :
       /\ players[sid].id = sid
       /\ players[sid].roomId \in DOMAIN rooms
       /\ sid \in MemberIds(rooms[players[sid].roomId])
       /\ LET rp == removePlayer(rooms, players, sid)
              r == players[sid].roomId
          IN /\ rp.player /\ sid \notin DOMAIN rp.players
             /\ r \in DOMAIN rp.rooms => sid \notin MemberIds(rp.rooms[r])

\* C39 witness: a session has disconnected and a registered session is
\* still listed in a room other than the one its registry entry names, in
\* which it is listed too.
C39_Witness ==
    /\ sockets # Sids
    /\ \E sid \in DOMAIN players : \E r \in DOMAIN rooms :
          /\ players[sid].roomId # r
          /\ sid \in MemberIds(rooms[r])
          /\ sid \in MemberIds(rooms[players[sid].roomId])

====
